---- MODULE Spec2Model ----
(***************************************************************************)
(* Model of the ANTSDR DMA streaming driver                                *)
(* (src/drivers/antsdr_dma/antsdr_dma.c): the transfer -> frame ->         *)
(* payload -> packet pipeline, its bounded buffers and its start/stop      *)
(* state machine.                                                          *)
(*                                                                         *)
(* Data is modelled at 32-bit word granularity (every length the driver    *)
(* handles is a multiple of 4 bytes).  A 32-bit value is the pair          *)
(* <<hi, lo>> of its 16-bit halves, so that the FPGA markers keep their    *)
(* real values and uint32_t arithmetic wraps at 2^32 exactly.              *)
(***************************************************************************)
EXTENDS Integers, Sequences, FiniteSets, TLC

(***************************************************************************)
(* uint32_t                                                                *)
(***************************************************************************)
Half == 2^16

U32(hi, lo) == <<hi, lo>>

U32FromNat(n) == <<n \div Half, n % Half>>

U32Add(a, b) ==
    LET lo == a[2] + b[2]
        hi == a[1] + b[1] + (lo \div Half)
    IN  <<hi % Half, lo % Half>>

U32Sub(a, b) ==
    LET lo == a[2] - b[2]
        hi == a[1] - b[1] - (IF lo < 0 THEN 1 ELSE 0)
    IN  <<(hi + Half) % Half, (lo + Half) % Half>>

U32Lt(a, b) == a[1] < b[1] \/ (a[1] = b[1] /\ a[2] < b[2])

U32Zero == <<0, 0>>
U32One  == <<0, 1>>
U32Max  == <<65535, 65535>>

U32Inc(a) == U32Add(a, U32One)

(***************************************************************************)
(* Program constants                                                       *)
(***************************************************************************)
FPGA_HEADER_MARKER_1 == <<65279, 65535>>     \* 0xFEFFFFFF
FPGA_HEADER_MARKER_2 == <<65535, 65534>>     \* 0xFFFFFFFE
FPGA_FOOTER_MARKER   == <<65535, 65535>>     \* 0xFFFFFFFF

FPGA_LONG_PULSE_WORDS  == 403
FPGA_SHORT_PULSE_WORDS == 53

ANTSDR_MAX_PAYLOAD_SIZE == 1360
RING_BUFFER_SIZE == 1600
FRAME_DETECTION_BUFFER_SIZE == 65536
NUM_BUFFERS == 16
FrameWorkBatch == 50
UdpWorkBatch == 200

(***************************************************************************)
(* Bounds of the model                                                     *)
(***************************************************************************)
\* Slots of the payload ring (RING_BUFFER_COUNT is 256 in the source).
RingSlots == 2
\* Entries of the raw-transfer FIFO (256 raw frames in the source).
FifoSlots == 2
\* Transfers completed by the DMA engine in one run
MaxTransfers == 3
\* ioctls issued in one run
MaxCtl == 3
\* Failures injected in one run: an allocation, a submission, a DMA error, a
\* send, a released object overwritten before it is read
MaxFaults == 1
\* Transfers, ioctls and failures of one run, together
MaxEvents == 4
\* Calls made on the payload ring
MaxRingCalls == 6
\* Transfers queued before the worker runs (the FIFO holds 256 in the source)
MaxQueued == 52
\* Frames the worker stores while the packetizer drains the ring
MaxDrained == 102

Min(S) == CHOOSE x \in S : \A y \in S : x <= y
Max(S) == CHOOSE x \in S : \A y \in S : y <= x

\* words[i] of a C array held as a TLA+ sequence
W(words, i) == words[i + 1]

\* n words of a buffer starting at word offset off
Slice(words, off, n) == SubSeq(words, off + 1, off + n)

\* memcpy(dst, src, 4 * Len(src)) into the start of dst
Memcpy(dst, src) ==
    [i \in 1..Len(dst) |-> IF i <= Len(src) THEN src[i] ELSE dst[i]]

(***************************************************************************)
(* Transfers                                                               *)
(***************************************************************************)
\* A buffer handed to the driver's functions is named by what it holds: the
\* record in, whose words are Build(in).
\* A transfer of len words with a start marker hdr at hpos and the end marker
\* at fpos (-1: none), the counter word ctr before the end marker, and, with
\* inner, marker values among the payload words.
Build(in) ==
    [j \in 1..in.len |->
        LET i == j - 1
        IN  IF i = in.hpos THEN in.hdr
            ELSE IF i = in.fpos THEN FPGA_FOOTER_MARKER
            ELSE IF in.fpos >= 1 /\ i = in.fpos - 1 THEN in.ctr
            ELSE IF in.inner /\ i = in.hpos + 4 THEN FPGA_FOOTER_MARKER
            ELSE IF in.inner /\ i = in.hpos + 5 THEN FPGA_HEADER_MARKER_2
            ELSE <<1, i>>]

Tr(len, hpos, fpos, hdr, ctr, inner) ==
    [len |-> len, hpos |-> hpos, fpos |-> fpos, hdr |-> hdr, ctr |-> ctr,
     inner |-> inner]

\* the transfer holds one well-formed frame of E words
Good(in, E) == in.hpos >= 0 /\ in.fpos = in.hpos + E - 1

\* both markers present, wrong span
Mismatch(in, E) == in.hpos >= 0 /\ in.fpos >= 0 /\ in.fpos # in.hpos + E - 1

GoodTransfers(E) ==
    {Tr(E, 0, E - 1, FPGA_HEADER_MARKER_1, U32FromNat(5), FALSE),
     Tr(E + 2, 1, E, FPGA_HEADER_MARKER_2, U32FromNat(6), FALSE),
     Tr(E, 0, E - 1, FPGA_HEADER_MARKER_1, U32FromNat(7), TRUE),
     Tr(E, 0, E - 1, FPGA_HEADER_MARKER_2, U32Max, FALSE)}

MismatchTransfers(E) ==
    {Tr(E, 1, E - 1, FPGA_HEADER_MARKER_1, U32FromNat(8), FALSE),
     Tr(E, 0, E - 2, FPGA_HEADER_MARKER_2, U32FromNat(8), FALSE),
     Tr(E, 2, 0, FPGA_HEADER_MARKER_1, U32FromNat(8), FALSE),
     Tr(E + 1, 0, E, FPGA_HEADER_MARKER_1, U32FromNat(8), FALSE)}

OtherTransfers(E) ==
    {Tr(E, 0, -1, FPGA_HEADER_MARKER_1, U32Zero, FALSE),
     Tr(E, -1, E - 1, FPGA_HEADER_MARKER_1, U32Zero, FALSE),
     Tr(E, -1, -1, FPGA_HEADER_MARKER_1, U32Zero, FALSE)}

(***************************************************************************)
(* Return codes                                                            *)
(***************************************************************************)
EIO     == 5
EBUSY   == 16
EINVAL  == 22
ENOSPC  == 28
ENODATA == 61

\* mutant: the expected frame size one word short
ExpectedOneShort(pulse_mode) ==
    IF pulse_mode # 0 THEN FPGA_LONG_PULSE_WORDS - 1
                      ELSE FPGA_SHORT_PULSE_WORDS - 1

Expected(pulse_mode) ==
    IF pulse_mode # 0 THEN FPGA_LONG_PULSE_WORDS ELSE FPGA_SHORT_PULSE_WORDS

antsdr_get_transfer_size(d) ==
    IF d.pulse_mode # 0 THEN FPGA_LONG_PULSE_WORDS * 4
                        ELSE FPGA_SHORT_PULSE_WORDS * 4

IsHeader(w) == w = FPGA_HEADER_MARKER_1 \/ w = FPGA_HEADER_MARKER_2

\* first index holding a start marker, -1 if none (the loop of step 1)
HeaderPos(words) ==
    LET S == {i \in 0..(Len(words) - 1) : IsHeader(W(words, i))}
    IN  IF S = {} THEN -1 ELSE Min(S)

\* mutant: the end marker looked for in the first half of the words only
FooterPosFirstHalf(words) ==
    LET S == {i \in 0..(Len(words) \div 2 - 1) :
                 W(words, i) = FPGA_FOOTER_MARKER}
    IN  IF S = {} THEN -1 ELSE Max(S)

\* last index holding the end marker, -1 if none
FooterPos(words) ==
    LET S == {i \in 0..(Len(words) - 1) : W(words, i) = FPGA_FOOTER_MARKER}
    IN  IF S = {} THEN -1 ELSE Max(S)

(***************************************************************************)
(* Payload ring                                                            *)
(***************************************************************************)
\* mutant: a put that does not look at the count
antsdr_ring_put_overwrite(d, data, size) ==
    IF size > RING_BUFFER_SIZE
    THEN [dev |-> d, ret |-> -EINVAL]
    ELSE [dev |-> [d EXCEPT
                     !.ring_buffers[d.ring_head] = Memcpy(@, data),
                     !.ring_head = (d.ring_head + 1) % RingSlots,
                     !.ring_count = Min({@ + 1, RingSlots})],
          ret |-> 0]

\* data: the size/4 words read from the caller's pointer
antsdr_ring_put(d, data, size) ==
    IF size > RING_BUFFER_SIZE
    THEN [dev |-> d, ret |-> -EINVAL]
    ELSE IF d.ring_count >= RingSlots
    THEN [dev |-> d, ret |-> -ENOSPC]
    ELSE [dev |-> [d EXCEPT
                     !.ring_buffers[d.ring_head] = Memcpy(@, data),
                     !.ring_head = (d.ring_head + 1) % RingSlots,
                     !.ring_count = @ + 1],
          ret |-> 0]

\* mutant: a get that returns the slot put last
antsdr_ring_get_newest(d) ==
    IF d.ring_count = 0
    THEN [ret |-> -ENODATA, data |-> -1, size |-> 0]
    ELSE [ret |-> 0, data |-> (d.ring_head + RingSlots - 1) % RingSlots,
          size |-> RING_BUFFER_SIZE]

\* data: index of the slot the returned pointer refers to
antsdr_ring_get(d) ==
    IF d.ring_count = 0
    THEN [ret |-> -ENODATA, data |-> -1, size |-> 0]
    ELSE [ret |-> 0, data |-> d.ring_tail, size |-> RING_BUFFER_SIZE]

antsdr_ring_return_buffer(d) ==
    IF d.ring_count > 0
    THEN [d EXCEPT !.ring_tail = (d.ring_tail + 1) % RingSlots,
                   !.ring_count = @ - 1]
    ELSE d

\* "if (!udp_work_pending) { udp_work_pending = true; schedule_work(&udp_work); }"
schedule_udp_work(d) ==
    IF ~d.udp_work_pending
    THEN [d EXCEPT !.udp_work_pending = TRUE, !.udp_work = TRUE]
    ELSE d

(***************************************************************************)
(* Frame accumulation buffer                                               *)
(***************************************************************************)
\* mutant: a transfer handed to the buffer is discarded
antsdr_frame_buffer_discard(d, data, size) == [dev |-> d, ret |-> 0]

antsdr_frame_buffer_add(d, data, size) ==
    LET bytes == Slice(Build(data), 0, size \div 4) IN
    IF d.frame_buffer_used + size > FRAME_DETECTION_BUFFER_SIZE
    THEN [dev |-> [d EXCEPT !.frame_buffer_used = 0,
                            !.frames_accumulated = 0,
                            !.frame_detection_buffer = <<>>],
          ret |-> -ENOSPC]
    ELSE [dev |-> [d EXCEPT !.frame_detection_buffer = @ \o bytes,
                            !.frame_buffer_used = @ + size,
                            !.frames_accumulated = @ + 1],
          ret |-> 0]

antsdr_frame_buffer_reset(d) ==
    [d EXCEPT !.frame_buffer_used = 0,
              !.frames_accumulated = 0,
              !.frame_detection_buffer = <<>>]

\* payload length of a frame found by the reprocessing pass
BufferPayloadLen(expected_frame_size) == (expected_frame_size - 2) * 4

\* The for loop of antsdr_frame_buffer_process from index i on.  Words that
\* hold no start marker are skipped without effect, so the loop is followed
\* from one start marker to the next.
RECURSIVE frame_buffer_scan(_, _, _, _)
frame_buffer_scan(d, words, i, frames_found) ==
    LET word_count == Len(words)
        expected_frame_size == Expected(d.pulse_mode)
        H == {j \in i..(word_count - 2) : IsHeader(W(words, j))}
    IN  IF H = {}
        THEN [dev |-> d, frames_found |-> frames_found]
        ELSE
          LET h == Min(H)
              footer_pos == h + expected_frame_size - 1
          IN  IF h + expected_frame_size <= word_count
                 /\ W(words, footer_pos) = FPGA_FOOTER_MARKER
              THEN
                LET payload_len == BufferPayloadLen(expected_frame_size)
                    payload == Slice(words, h + 1, payload_len \div 4)
                    put == antsdr_ring_put(d, payload, payload_len)
                    d1 == IF put.ret = 0
                          THEN schedule_udp_work(
                                 [put.dev EXCEPT !.stats.valid_frames = @ + 1,
                                                 !.stats.extracted_frames = @ + 1])
                          ELSE put.dev
                IN  frame_buffer_scan(d1, words, h + expected_frame_size,
                                      IF put.ret = 0 THEN frames_found + 1
                                                     ELSE frames_found)
              ELSE \* misaligned or incomplete frame: logged only
                frame_buffer_scan(d, words, h + 1, frames_found)

\* mutant: a pass that keeps what it scanned
antsdr_frame_buffer_process_keep(d) ==
    IF d.frame_buffer_used < 8
    THEN [dev |-> d, frames_found |-> 0]
    ELSE LET r == frame_buffer_scan(d, d.frame_detection_buffer, 0, 0)
         IN  [dev |-> r.dev, frames_found |-> r.frames_found]

\* mutant: a pass that reports a frame whenever it scans the buffer
antsdr_frame_buffer_process_found(d) ==
    IF d.frame_buffer_used < 8
    THEN [dev |-> d, frames_found |-> 0]
    ELSE LET r == frame_buffer_scan(d, d.frame_detection_buffer, 0, 0)
         IN  [dev |-> antsdr_frame_buffer_reset(r.dev),
              frames_found |-> r.frames_found + 1]

antsdr_frame_buffer_process(d) ==
    IF d.frame_buffer_used < 8
    THEN [dev |-> d, frames_found |-> 0]
    ELSE LET r == frame_buffer_scan(d, d.frame_detection_buffer, 0, 0)
         IN  [dev |-> antsdr_frame_buffer_reset(r.dev),
              frames_found |-> r.frames_found]

(***************************************************************************)
(* Frame extractor                                                         *)
(***************************************************************************)
\* gap-based missing frame detection of a valid frame
gap_detect(d, frame_counter) ==
    IF ~d.first_frame_received
    THEN [d EXCEPT !.last_frame_counter = frame_counter,
                   !.first_frame_received = TRUE]
    ELSE LET expected_counter == U32Inc(d.last_frame_counter)
         IN  [d EXCEPT
                !.missing_frame_count =
                    IF U32Lt(expected_counter, frame_counter)
                    THEN U32Add(@, U32Sub(frame_counter, expected_counter))
                    ELSE @,
                !.last_frame_counter = frame_counter]

\* payload length of a directly extracted frame
PayloadLen(actual_frame_words) == (actual_frame_words - 3) * 4

\* word offset of the payload of a directly extracted frame
PayloadStart(header_pos) == header_pos + 1

\* data names the buffer parsed.  The caller's payload pointer is the pair of
\* the object it points into and the word offset in it; out is the caller's (payload, payload_len), which the
\* function writes on the direct success path only.
antsdr_parse_fpga_frame(d0, data, data_len, out) ==
    LET d == [d0 EXCEPT !.total_frames_processed = @ + 1]
        words == Slice(Build(data), 0, data_len \div 4)
        header_pos == HeaderPos(words)
        footer_pos == FooterPos(words)
        expected_frame_words == Expected(d.pulse_mode)
        actual_frame_words == footer_pos - header_pos + 1
    IN  IF header_pos # -1 /\ footer_pos # -1
        THEN
          IF actual_frame_words = expected_frame_words
          THEN
            LET d1 == IF footer_pos > header_pos + 1
                      THEN gap_detect(d, W(words, footer_pos - 1))
                      ELSE d
            IN  IF actual_frame_words >= 3
                THEN [dev |-> d1, ret |-> 0,
                      out |-> [set |-> TRUE, obj |-> data,
                               off |-> PayloadStart(header_pos),
                               len |-> PayloadLen(actual_frame_words)]]
                ELSE [dev |-> d1, ret |-> -1, out |-> out]
          ELSE [dev |-> d, ret |-> -1, out |-> out]
        ELSE IF header_pos # -1
        THEN
          LET add == antsdr_frame_buffer_add(d, data, data_len)
          IN  IF add.ret = 0
                 /\ (add.dev.frames_accumulated >= 3
                     \/ add.dev.frame_buffer_used
                           >= FRAME_DETECTION_BUFFER_SIZE \div 2)
              THEN LET p == antsdr_frame_buffer_process(add.dev)
                   IN  [dev |-> p.dev,
                        ret |-> IF p.frames_found > 0 THEN 0 ELSE -1,
                        out |-> out]
              ELSE [dev |-> add.dev, ret |-> -1, out |-> out]
        ELSE [dev |-> d, ret |-> -1, out |-> out]

(***************************************************************************)
(* Frame worker: the body of one iteration of the loop of antsdr_frame_work *)
(***************************************************************************)
\* The worker's locals payload and payload_len before the first successful
\* parse: uninitialised.
NoPayload == [set |-> FALSE, obj |-> [len |-> 0], off |-> 0, len |-> 0]

POISON == <<27499, 27499>>

\* The transfer copy is released (kfree) before antsdr_ring_put reads the
\* payload through the pointer into it: the words read are those of the
\* released object, intact or overwritten.
AfterFree(obj, intact) ==
    IF intact THEN Build(obj) ELSE [i \in 1..obj.len |-> POISON]

\* What antsdr_ring_put may read through the worker's payload pointer: the
\* released object, or, for a pointer never written, any length and bytes.
ReadImages(out) ==
    IF out.set
    THEN {[data |-> Slice(AfterFree(out.obj, k), out.off, out.len \div 4),
           len |-> out.len, intact |-> k] : k \in BOOLEAN}
    ELSE {[data |-> <<>>, len |-> 0, intact |-> FALSE],
          [data |-> <<>>, len |-> RING_BUFFER_SIZE + 4, intact |-> FALSE]}

\* nothing read: the parse failed
NoRead == [data |-> <<>>, len |-> 0, intact |-> TRUE]

\* mutant: a frame the ring refuses is not counted
frame_work_store_uncounted(p, rd) ==
    IF p.ret = 0
    THEN LET put == antsdr_ring_put(p.dev, rd.data, rd.len)
         IN  IF put.ret = 0
             THEN [dev |-> [schedule_udp_work(put.dev) EXCEPT
                              !.stats.valid_frames = @ + 1,
                              !.stats.extracted_frames = @ + 1],
                   put_ret |-> put.ret]
             ELSE [dev |-> put.dev, put_ret |-> put.ret]
    ELSE [dev |-> [p.dev EXCEPT !.stats.invalid_frames = @ + 1],
          put_ret |-> 1]

\* p: the result of antsdr_parse_fpga_frame; rd: what the put reads
frame_work_store(p, rd) ==
    IF p.ret = 0
    THEN LET put == antsdr_ring_put(p.dev, rd.data, rd.len)
         IN  IF put.ret = 0
             THEN [dev |-> [schedule_udp_work(put.dev) EXCEPT
                              !.stats.valid_frames = @ + 1,
                              !.stats.extracted_frames = @ + 1],
                   put_ret |-> put.ret]
             ELSE [dev |-> [put.dev EXCEPT !.stats.errors = @ + 1],
                   put_ret |-> put.ret]
    ELSE [dev |-> [p.dev EXCEPT !.stats.invalid_frames = @ + 1],
          put_ret |-> 1]

(***************************************************************************)
(* State                                                                   *)
(***************************************************************************)
VARIABLES
    dev,        \* struct antsdr_dma_dev
    worker,     \* antsdr_frame_work: position and locals
    obs,        \* the last call made: its input and what it returned; under
                \* SpecLocks, the owner of each lock and where each context is
    fed,        \* history: frame counters of the valid frames parsed
    calls,      \* calls made by a driver, transfers completed by the DMA engine
    hw,         \* the DMA channel: descriptors submitted and not yet completed
    cb,         \* antsdr_dma_callback: position
    udp,        \* antsdr_udp_work: position and locals
    ctl,        \* the thread in antsdr_dma_ioctl: position and locals
    wire,       \* history: the slot last taken by the packetizer, as it was
                \* put, and the packets built for it
    put_log,    \* history: per ring slot, the payload last put into it
    faults      \* failures injected so far

vars == <<dev, worker, obs, fed, calls, hw, cb, udp, ctl, wire, put_log,
          faults>>

\* the variables of the contexts a call-by-call driver leaves alone
contexts == <<hw, cb, udp, ctl, wire>>

\* Contents of a ring slot after kmalloc: not initialised
JunkWords == {<<0, 0>>, <<43690, 43690>>}

StatsInit ==
    [transfers_completed |-> 0, bytes_transferred |-> 0,
     udp_packets_sent |-> 0, errors |-> 0, valid_frames |-> 0,
     invalid_frames |-> 0, extracted_frames |-> 0]

\* The device after antsdr_dma_probe
DevInit(junk) ==
    [pulse_mode |-> 0,
     streaming |-> FALSE,
     dest_set |-> TRUE,
     sock |-> TRUE,
     current_buffer |-> 0,
     gpio_enable |-> 0,
     stats |-> StatsInit,
     ring_buffers |-> [s \in 0..(RingSlots - 1) |->
                          [i \in 1..(RING_BUFFER_SIZE \div 4) |-> junk]],
     ring_head |-> 0,
     ring_tail |-> 0,
     ring_count |-> 0,
     udp_work |-> FALSE,
     udp_work_pending |-> FALSE,
     frame_work |-> FALSE,
     frame_work_pending |-> FALSE,
     raw_frame_fifo |-> <<>>,
     packet_sequence_number |-> U32Zero,
     frame_id_counter |-> U32Zero,
     frame_detection_buffer |-> <<>>,
     frame_buffer_used |-> 0,
     frames_accumulated |-> 0,
     total_frames_processed |-> 0,
     missing_frame_count |-> U32Zero,
     last_frame_counter |-> U32Zero,
     first_frame_received |-> FALSE,
     dma_complete |-> 0]

WorkerInit == [pc |-> "idle", processed_frames |-> 0, out |-> NoPayload]

\* antsdr_udp_work between invocations
UdpInit ==
    [pc |-> "idle", packets_sent |-> 0, ring_data |-> -1, payload_len |-> 0,
     current_frame_id |-> U32Zero, fragments_needed |-> 0,
     fragment_offset |-> 0, fragment_idx |-> 0]

\* no ioctl in progress
\* n counts the ioctls issued; mark is the number of transfers that had
\* completed when streaming was last started
CtlInit == [pc |-> "none", cmd |-> "none", value |-> 0,
            was_streaming |-> FALSE, n |-> 0, mark |-> -1]

NoPut == [src |-> NoPayload, intact |-> TRUE]

\* the bytes of a payload recorded in put_log
PutBytes(e) ==
    Slice(AfterFree(e.src.obj, e.intact), e.src.off, e.src.len \div 4)

NoObs == [op |-> "none"]

(***************************************************************************)
(* What the FPGA sends: total words of a frame per pulse mode               *)
(***************************************************************************)
FrameWords(pulse_mode) == IF pulse_mode # 0 THEN 403 ELSE 53

\* Calls made by a driver of the worker loop body
MaxCalls == 3
\* Valid frames fed for gap tracking
MaxGapFrames == 4
\* Calls made on the accumulation buffer
MaxBufCalls == 3

(***************************************************************************)
(* One iteration of the loop of antsdr_frame_work on the raw frame taken   *)
(* from the FIFO, from device state d (the FIFO already popped).           *)
(***************************************************************************)
\* Events of a run of the pipeline: transfers completed, ioctls issued and
\* failures injected
Spent == calls + ctl.n + faults

\* a failure may be injected only while the budgets last
MayFail(ok) == ok \/ (faults < MaxFaults /\ Spent < MaxEvents)
Charge(ok) == IF ok THEN faults ELSE faults + 1

\* record: whether the call is recorded in obs and fed
FrameWorkIteration(d, in, record) ==
    \E p \in {antsdr_parse_fpga_frame(d, in, 4 * in.len, worker.out)} :
        \E rd \in (IF p.ret = 0 THEN ReadImages(p.out) ELSE {NoRead}) :
          \E st \in {frame_work_store(p, rd)} :
              /\ MayFail(record \/ rd.intact)
              /\ faults' = Charge(record \/ rd.intact)
              /\ dev' = st.dev
              /\ worker' = [worker EXCEPT !.out = p.out,
                                          !.processed_frames = @ + 1]
              /\ obs' = IF record
                        THEN [op |-> "frame_work", in |-> in, ret |-> p.ret,
                              out |-> p.out, put_ret |-> st.put_ret,
                              read |-> rd]
                        ELSE obs
              /\ fed' = IF record /\ p.ret = 0 /\ p.out.set /\ p.out.obj = in
                        THEN Append(fed, in.ctr) ELSE fed
              /\ put_log' = IF st.put_ret = 0
                            THEN [put_log EXCEPT ![p.dev.ring_head] =
                                     [src |-> p.out, intact |-> rd.intact]]
                            ELSE put_log

InitDev ==
    \E m \in {0, 1}, junk \in JunkWords :
        dev = [DevInit(junk) EXCEPT !.pulse_mode = m]

InitRest ==
    /\ worker = WorkerInit
    /\ obs = NoObs
    /\ fed = <<>>
    /\ calls = 0
    /\ hw = [inflight |-> 0]
    /\ cb = [pc |-> "idle"]
    /\ udp = UdpInit
    /\ ctl = CtlInit
    /\ wire = [put |-> NoPut, packets |-> <<>>, done |-> FALSE]
    /\ put_log = [s \in 0..(RingSlots - 1) |-> NoPut]
    /\ faults = 0

(***************************************************************************)
(* SpecExtract: the worker loop body applied to transfers of every kind     *)
(***************************************************************************)
ExtractInputs(E) ==
    GoodTransfers(E) \cup MismatchTransfers(E) \cup OtherTransfers(E)

ExtractCall ==
    /\ calls < MaxCalls
    /\ calls' = calls + 1
    /\ \E in \in ExtractInputs(FrameWords(dev.pulse_mode)) :
          FrameWorkIteration(dev, in, TRUE)
    /\ UNCHANGED contexts

InitExtract == InitDev /\ InitRest

SpecExtract == InitExtract /\ [][ExtractCall]_vars

(***************************************************************************)
(* SpecGap: valid frames with chosen counters, in sequence                 *)
(***************************************************************************)
GapCounters ==
    {U32FromNat(5), U32FromNat(6), U32FromNat(7), U32FromNat(8),
     U32FromNat(9), U32Max}

GapTransfers(E) ==
    {Tr(E, 0, E - 1, FPGA_HEADER_MARKER_1, c, FALSE) : c \in GapCounters}

GapCall ==
    /\ calls < MaxGapFrames
    /\ calls' = calls + 1
    /\ \E in \in GapTransfers(FrameWords(dev.pulse_mode)) :
          FrameWorkIteration(dev, in, TRUE)
    /\ UNCHANGED contexts

InitGap ==
    /\ \E m \in {0, 1} : dev = [DevInit(U32Zero) EXCEPT !.pulse_mode = m]
    /\ InitRest

SpecGap == InitGap /\ [][GapCall]_vars


(***************************************************************************)
(* SpecAccum: the accumulation buffer driven call by call                  *)
(***************************************************************************)
\* transfer A: start marker and 100 bytes, no end marker
SplitHead == Tr(25, 0, -1, FPGA_HEADER_MARKER_1, U32Zero, FALSE)

\* transfer B: the rest of a frame of E words, ending with the end marker
SplitTail(E) ==
    Tr(E - 25, -1, E - 26, FPGA_HEADER_MARKER_1, U32FromNat(5), FALSE)

AccumChunks(E) ==
    {SplitHead, SplitTail(E),
     Tr(E, 0, -1, FPGA_HEADER_MARKER_2, U32Zero, FALSE),
     Tr(E, 0, E - 1, FPGA_HEADER_MARKER_1, U32FromNat(6), FALSE)}

BufAddCall ==
    /\ calls < MaxBufCalls
    /\ calls' = calls + 1
    /\ \E in \in AccumChunks(FrameWords(dev.pulse_mode)) :
         \E r \in {antsdr_frame_buffer_add(dev, in, 4 * in.len)} :
            /\ dev' = r.dev
            /\ obs' = [op |-> "buffer_add", in |-> in, ret |-> r.ret]
    /\ UNCHANGED <<worker, fed, put_log, faults>>
    /\ UNCHANGED contexts

BufProcessCall ==
    /\ calls < MaxBufCalls
    /\ calls' = calls + 1
    /\ \E r \in {antsdr_frame_buffer_process(dev)} :
            /\ dev' = r.dev
            /\ obs' = [op |-> "buffer_process", frames_found |-> r.frames_found]
    /\ UNCHANGED <<worker, fed, put_log, faults>>
    /\ UNCHANGED contexts

NextAccum == BufAddCall \/ BufProcessCall

SpecAccum == InitExtract /\ [][NextAccum]_vars

(***************************************************************************)
(* Spec: the streaming pipeline.  The DMA completion callback, the frame   *)
(* worker, the UDP packetizer and one thread issuing ioctls, interleaved   *)
(* at the granularity of their lock regions.                               *)
(***************************************************************************)
MAX_S2MM_TRANSFER_SIZE == 512 * 4

\* What a DMA buffer holds at completion, for a frame size of E words
PipelineTransfers(E) ==
    {Tr(E, 0, E - 1, FPGA_HEADER_MARKER_1, U32FromNat(5), FALSE),
     Tr(E, 0, -1, FPGA_HEADER_MARKER_1, U32Zero, FALSE),
     Tr(E, 0, E - 2, FPGA_HEADER_MARKER_2, U32FromNat(8), FALSE)}

count_error(d) == [d EXCEPT !.stats.errors = @ + 1]

complete(d) == [d EXCEPT !.dma_complete = @ + 1]

\* ok: the DMA engine accepts the configuration and the descriptor
antsdr_submit_dma_transfer(d, h, ok) ==
    IF ok
    THEN [dev |-> [d EXCEPT !.dma_complete = 0],
          hw |-> [h EXCEPT !.inflight = @ + 1],
          ret |-> 0]
    ELSE [dev |-> d, hw |-> h, ret |-> -EIO]

dmaengine_terminate_async(h) == [h EXCEPT !.inflight = 0]

(***************************************************************************)
(* antsdr_dma_callback                                                     *)
(***************************************************************************)
\* mutant: a full queue drops its oldest transfer to take the new one
callback_enqueue_drop_oldest(d, in, alloc_ok) ==
    IF ~(d.dest_set /\ antsdr_get_transfer_size(d) <= MAX_S2MM_TRANSFER_SIZE)
    THEN d
    ELSE IF ~alloc_ok
    THEN count_error(d)
    ELSE LET q == IF Len(d.raw_frame_fifo) < FifoSlots
                  THEN d.raw_frame_fifo ELSE Tail(d.raw_frame_fifo)
             d1 == [d EXCEPT !.raw_frame_fifo =
                        Append(q, [data |-> in,
                                   data_len |-> antsdr_get_transfer_size(d)])]
             d2 == IF Len(d.raw_frame_fifo) < FifoSlots
                   THEN d1 ELSE count_error(d1)
         IN  IF ~d2.frame_work_pending
             THEN [d2 EXCEPT !.frame_work_pending = TRUE, !.frame_work = TRUE]
             ELSE d2

\* the copy of the completed buffer queued for the worker
callback_enqueue(d, in, alloc_ok) ==
    IF ~(d.dest_set /\ antsdr_get_transfer_size(d) <= MAX_S2MM_TRANSFER_SIZE)
    THEN d
    ELSE IF ~alloc_ok
    THEN count_error(d)
    ELSE IF Len(d.raw_frame_fifo) < FifoSlots
    THEN LET d1 == [d EXCEPT !.raw_frame_fifo =
                        Append(@, [data |-> in,
                                   data_len |-> antsdr_get_transfer_size(d)])]
         IN  IF ~d1.frame_work_pending
             THEN [d1 EXCEPT !.frame_work_pending = TRUE, !.frame_work = TRUE]
             ELSE d1
    ELSE count_error(d)

\* from entry to the check of the streaming flag
DmaCallback ==
    /\ cb.pc = "idle"
    /\ hw.inflight > 0
    /\ calls < MaxTransfers
    /\ Spent < MaxEvents
    /\ calls' = calls + 1
    /\ hw' = [hw EXCEPT !.inflight = @ - 1]
    /\ \/ /\ faults < MaxFaults
          /\ Spent + 1 < MaxEvents
          /\ faults' = faults + 1
          /\ dev' = count_error(dev)
          /\ cb' = [pc |-> "reset"]
          /\ obs' = obs
       \/ \E in \in PipelineTransfers(FrameWords(dev.pulse_mode)),
             alloc_ok \in BOOLEAN :
            /\ alloc_ok \/ (faults < MaxFaults /\ Spent + 1 < MaxEvents)
            /\ faults' = Charge(alloc_ok)
            /\ \E d2 \in {callback_enqueue(
                            [dev EXCEPT
                               !.stats.transfers_completed = @ + 1,
                               !.stats.bytes_transferred =
                                   @ + antsdr_get_transfer_size(dev)],
                            in, alloc_ok)} :
                  IF ~d2.streaming
                  THEN /\ dev' = complete(d2)
                       /\ cb' = [pc |-> "idle"]
                  ELSE /\ dev' = [d2 EXCEPT !.current_buffer =
                                                 (@ + 1) % NUM_BUFFERS]
                       /\ cb' = [pc |-> "rearm"]
            /\ obs' = obs
    /\ UNCHANGED <<worker, fed, udp, ctl, wire, put_log>>

\* the submission of the next transfer and what follows it
CallbackRearm ==
    /\ cb.pc = "rearm"
    /\ \E ok \in BOOLEAN :
         /\ MayFail(ok)
         /\ faults' = Charge(ok)
         /\ \E s \in {antsdr_submit_dma_transfer(dev, hw, ok)} :
              /\ hw' = s.hw
              /\ IF s.ret # 0
                 THEN /\ dev' = count_error(s.dev)
                      /\ cb' = [pc |-> IF dev.streaming THEN "reset"
                                                        ELSE "idle"]
                 ELSE /\ dev' = complete(s.dev)
                      /\ cb' = [pc |-> "idle"]
              /\ obs' = obs
    /\ UNCHANGED <<worker, fed, calls, udp, ctl, wire, put_log>>

(***************************************************************************)
(* antsdr_dma_reset_and_restart, called by the callback                    *)
(***************************************************************************)
\* mutant: a restart attempted whatever the streaming flag says
ResetCheckAlways ==
    /\ cb.pc = "reset"
    /\ cb' = [pc |-> "restart"]
    /\ obs' = obs
    /\ UNCHANGED <<dev, worker, fed, calls, hw, udp, ctl, wire, put_log,
                   faults>>

ResetCheck ==
    /\ cb.pc = "reset"
    /\ cb' = [pc |-> IF dev.streaming THEN "restart" ELSE "idle"]
    /\ obs' = obs
    /\ UNCHANGED <<dev, worker, fed, calls, hw, udp, ctl, wire, put_log,
                   faults>>

ResetRestart ==
    /\ cb.pc = "restart"
    /\ \E ok \in BOOLEAN :
         /\ MayFail(ok)
         /\ faults' = Charge(ok)
         /\ \E s \in {antsdr_submit_dma_transfer(
                        [antsdr_frame_buffer_reset(dev) EXCEPT
                            !.ring_head = 0, !.ring_tail = 0,
                            !.ring_count = 0, !.gpio_enable = 1],
                        dmaengine_terminate_async(hw), ok)} :
              /\ hw' = s.hw
              /\ dev' = IF s.ret # 0
                        THEN [s.dev EXCEPT !.streaming = FALSE]
                        ELSE s.dev
              /\ obs' = obs
    /\ cb' = [pc |-> "idle"]
    /\ UNCHANGED <<worker, fed, calls, udp, ctl, wire, put_log>>

(***************************************************************************)
(* antsdr_frame_work                                                       *)
(***************************************************************************)
FrameWorkStart ==
    /\ dev.frame_work
    /\ worker.pc = "idle"
    /\ dev' = [dev EXCEPT !.frame_work = FALSE]
    /\ worker' = [WorkerInit EXCEPT !.pc = "loop"]
    /\ obs' = obs
    /\ UNCHANGED <<fed, calls, hw, cb, udp, ctl, wire, put_log, faults>>

\* mutant: a loop with no cap on the transfers of one invocation
FrameWorkStepUncapped ==
    /\ worker.pc = "loop"
    /\ dev.raw_frame_fifo # <<>>
    /\ FrameWorkIteration([dev EXCEPT !.raw_frame_fifo = Tail(@)],
                          Head(dev.raw_frame_fifo).data, FALSE)
    /\ UNCHANGED <<calls, hw, cb, udp, ctl, wire>>

FrameWorkStep ==
    /\ worker.pc = "loop"
    /\ worker.processed_frames < FrameWorkBatch
    /\ dev.raw_frame_fifo # <<>>
    /\ FrameWorkIteration([dev EXCEPT !.raw_frame_fifo = Tail(@)],
                          Head(dev.raw_frame_fifo).data, FALSE)
    /\ UNCHANGED <<calls, hw, cb, udp, ctl, wire>>

FrameWorkBreak ==
    /\ worker.pc = "loop"
    /\ worker.processed_frames >= FrameWorkBatch \/ dev.raw_frame_fifo = <<>>
    /\ worker' = [worker EXCEPT !.pc = "check"]
    /\ obs' = obs
    /\ UNCHANGED <<dev, fed, calls, hw, cb, udp, ctl, wire, put_log, faults>>

\* mutant: the worker ends without looking at the queue again
FrameWorkEndClears ==
    /\ worker.pc = "check"
    /\ dev' = [dev EXCEPT !.frame_work_pending = FALSE]
    /\ worker' = [worker EXCEPT !.pc = "idle"]
    /\ obs' = obs
    /\ UNCHANGED <<fed, calls, hw, cb, udp, ctl, wire, put_log, faults>>

FrameWorkEnd ==
    /\ worker.pc = "check"
    /\ dev' = IF dev.raw_frame_fifo # <<>>
              THEN [dev EXCEPT !.frame_work = TRUE]
              ELSE [dev EXCEPT !.frame_work_pending = FALSE]
    /\ worker' = [worker EXCEPT !.pc = "idle"]
    /\ obs' = obs
    /\ UNCHANGED <<fed, calls, hw, cb, udp, ctl, wire, put_log, faults>>

(***************************************************************************)
(* antsdr_udp_work                                                         *)
(***************************************************************************)
\* struct antsdr_packet_header, field by field
HeaderFields ==
    <<"start_marker", "sequence_number", "total_length", "payload_length",
      "frame_id", "fragment_offset", "fragment_count", "fragment_index",
      "frame_payload_total", "missing_frame_count", "checksum", "end_marker">>

\* sizeof(struct antsdr_packet_header): packed, uint32_t fields only
ANTSDR_PACKET_HEADER_SIZE == 4 * Len(HeaderFields)

ANTSDR_PACKET_START_MARKER == <<43981, 4660>>
ANTSDR_PACKET_END_MARKER == <<22136, 56506>>

\* mutant: the frame id read from the device counter at each fragment
BuildHeaderCounterId(d, u, current_fragment_size) ==
    [start_marker |-> ANTSDR_PACKET_START_MARKER,
     sequence_number |-> d.packet_sequence_number,
     total_length |-> ANTSDR_PACKET_HEADER_SIZE + current_fragment_size,
     payload_length |-> current_fragment_size,
     frame_id |-> d.frame_id_counter,
     fragment_offset |-> u.fragment_offset,
     fragment_count |-> u.fragments_needed,
     fragment_index |-> u.fragment_idx,
     frame_payload_total |-> u.payload_len,
     missing_frame_count |-> d.missing_frame_count,
     checksum |-> [crc32_over |-> current_fragment_size],
     end_marker |-> ANTSDR_PACKET_END_MARKER]

\* the header written for one fragment; the checksum is kept as the number
\* of payload bytes the CRC was computed over
BuildHeader(d, u, current_fragment_size) ==
    [start_marker |-> ANTSDR_PACKET_START_MARKER,
     sequence_number |-> d.packet_sequence_number,
     total_length |-> ANTSDR_PACKET_HEADER_SIZE + current_fragment_size,
     payload_length |-> current_fragment_size,
     frame_id |-> u.current_frame_id,
     fragment_offset |-> u.fragment_offset,
     fragment_count |-> u.fragments_needed,
     fragment_index |-> u.fragment_idx,
     frame_payload_total |-> u.payload_len,
     missing_frame_count |-> d.missing_frame_count,
     checksum |-> [crc32_over |-> current_fragment_size],
     end_marker |-> ANTSDR_PACKET_END_MARKER]

FragmentsNeeded(payload_len) ==
    (payload_len + ANTSDR_MAX_PAYLOAD_SIZE - 1) \div ANTSDR_MAX_PAYLOAD_SIZE

UdpWorkStart ==
    /\ dev.udp_work
    /\ udp.pc = "idle"
    /\ \E alloc_ok \in BOOLEAN :
         /\ MayFail(alloc_ok)
         /\ faults' = Charge(alloc_ok)
         /\ IF alloc_ok
            THEN /\ dev' = [dev EXCEPT !.udp_work = FALSE]
                 /\ udp' = [UdpInit EXCEPT !.pc = "loop"]
            ELSE /\ dev' = [dev EXCEPT !.udp_work = FALSE,
                                       !.udp_work_pending = FALSE]
                 /\ udp' = UdpInit
         /\ obs' = obs
    /\ UNCHANGED <<worker, fed, calls, hw, cb, ctl, wire, put_log>>

\* mutant: a loop with no cap on the packets of one invocation
UdpGetUncapped ==
    /\ udp.pc = "loop"
    /\ \E g \in {antsdr_ring_get(dev)} :
         IF g.ret # 0
         THEN /\ udp' = [udp EXCEPT !.pc = "end"]
              /\ UNCHANGED <<dev, wire>>
         ELSE LET d1 == antsdr_ring_return_buffer(dev)
                  n == FragmentsNeeded(g.size)
              IN  /\ dev' = [d1 EXCEPT !.frame_id_counter = U32Inc(@)]
                  /\ udp' = [udp EXCEPT
                               !.pc = IF n > 0 THEN "frag" ELSE "loop",
                               !.ring_data = g.data,
                               !.payload_len = g.size,
                               !.current_frame_id = d1.frame_id_counter,
                               !.fragments_needed = n,
                               !.fragment_offset = 0,
                               !.fragment_idx = 0]
                  /\ wire' = [put |-> put_log[g.data],
                              packets |-> <<>>, done |-> FALSE]
    /\ obs' = obs
    /\ UNCHANGED <<worker, fed, calls, hw, cb, ctl, put_log, faults>>

\* the head of the while loop: take a slot, release it, number the frame
UdpGet ==
    /\ udp.pc = "loop"
    /\ IF udp.packets_sent < UdpWorkBatch
       THEN \E g \in {antsdr_ring_get(dev)} :
              IF g.ret # 0
              THEN /\ udp' = [udp EXCEPT !.pc = "end"]
                   /\ UNCHANGED <<dev, wire>>
              ELSE LET d1 == antsdr_ring_return_buffer(dev)
                       n == FragmentsNeeded(g.size)
                   IN  /\ dev' = [d1 EXCEPT !.frame_id_counter = U32Inc(@)]
                       /\ udp' = [udp EXCEPT
                                    !.pc = IF n > 0 THEN "frag" ELSE "loop",
                                    !.ring_data = g.data,
                                    !.payload_len = g.size,
                                    !.current_frame_id = d1.frame_id_counter,
                                    !.fragments_needed = n,
                                    !.fragment_offset = 0,
                                    !.fragment_idx = 0]
                       /\ wire' = [put |-> put_log[g.data],
                                   packets |-> <<>>, done |-> FALSE]
       ELSE /\ udp' = [udp EXCEPT !.pc = "end"]
            /\ UNCHANGED <<dev, wire>>
    /\ obs' = obs
    /\ UNCHANGED <<worker, fed, calls, hw, cb, ctl, put_log, faults>>

\* one pass of the for loop: copy a fragment, write its header, send it
UdpFragment ==
    /\ udp.pc = "frag"
    /\ \E send_ok \in BOOLEAN :
         LET current_fragment_size ==
                 Min({udp.payload_len - udp.fragment_offset,
                      ANTSDR_MAX_PAYLOAD_SIZE})
             packet_payload ==
                 Slice(dev.ring_buffers[udp.ring_data],
                       udp.fragment_offset \div 4, current_fragment_size \div 4)
             header == BuildHeader(dev, udp, current_fragment_size)
             tx == dev.sock /\ dev.dest_set
             d1 == [dev EXCEPT !.packet_sequence_number = U32Inc(@)]
             last == udp.fragment_idx + 1 >= udp.fragments_needed
         IN  /\ MayFail(send_ok)
             /\ tx \/ send_ok
             /\ faults' = Charge(send_ok)
             /\ dev' = IF ~tx THEN d1
                       ELSE IF send_ok
                       THEN [d1 EXCEPT !.stats.udp_packets_sent = @ + 1]
                       ELSE count_error(d1)
             /\ wire' = [wire EXCEPT
                             !.packets = Append(@, [header |-> header,
                                                    payload |-> packet_payload,
                                                    iov_len |->
                                                      ANTSDR_PACKET_HEADER_SIZE
                                                      + current_fragment_size,
                                                    sent |-> tx /\ send_ok]),
                             !.done = last /\ tx /\ send_ok]
             /\ udp' = IF tx /\ ~send_ok
                       THEN [udp EXCEPT !.pc = "end"]
                       ELSE [udp EXCEPT
                               !.packets_sent = IF tx THEN @ + 1 ELSE @,
                               !.fragment_offset = @ + current_fragment_size,
                               !.fragment_idx = @ + 1,
                               !.pc = IF last THEN "loop" ELSE "frag"]
             /\ obs' = obs
    /\ UNCHANGED <<worker, fed, calls, hw, cb, ctl, put_log>>

\* mutant: the packetizer goes idle whatever the ring holds
UdpEndGoesIdle ==
    /\ udp.pc = "end"
    /\ dev' = [dev EXCEPT !.udp_work_pending = FALSE]
    /\ udp' = [udp EXCEPT !.pc = "idle"]
    /\ obs' = obs
    /\ UNCHANGED <<worker, fed, calls, hw, cb, ctl, wire, put_log, faults>>

UdpEnd ==
    /\ udp.pc = "end"
    /\ dev' = IF dev.ring_count > 0
              THEN [dev EXCEPT !.udp_work = TRUE]
              ELSE [dev EXCEPT !.udp_work_pending = FALSE]
    /\ udp' = [udp EXCEPT !.pc = "idle"]
    /\ obs' = obs
    /\ UNCHANGED <<worker, fed, calls, hw, cb, ctl, wire, put_log, faults>>

(***************************************************************************)
(* antsdr_dma_ioctl: START_STREAMING, STOP_STREAMING, SET_PULSE_MODE       *)
(***************************************************************************)
\* where the ioctl continues after antsdr_dma_stop_streaming returns
AfterStop(c) == IF c.cmd = "SET_PULSE_MODE" THEN "mode_apply" ELSE "none"

\* the thread enters antsdr_dma_ioctl with command cmd and argument value
Enter(cmd, value) ==
    [pc |-> "none", cmd |-> cmd, value |-> value, was_streaming |-> FALSE,
     n |-> ctl.n + 1, mark |-> ctl.mark]

MayEnter == ctl.pc = "none" /\ ctl.n < MaxCtl /\ Spent < MaxEvents

\* antsdr_dma_start_streaming up to the release of the lock
\* mutant: a start that renumbers the packets from zero
StartBeginRenumbers(c) ==
    /\ IF dev.streaming
       THEN /\ ctl' = [c EXCEPT !.pc = "none"]
            /\ UNCHANGED dev
       ELSE /\ dev' = [dev EXCEPT !.current_buffer = 0,
                                  !.missing_frame_count = U32Zero,
                                  !.last_frame_counter = U32Zero,
                                  !.first_frame_received = FALSE,
                                  !.packet_sequence_number = U32Zero]
            /\ ctl' = [c EXCEPT !.pc = "start_submit"]
    /\ UNCHANGED <<worker, obs, fed, calls, hw, cb, udp, wire, put_log,
                   faults>>

\* c: the ioctl the call belongs to
StartBegin(c) ==
    /\ IF dev.streaming
       THEN /\ ctl' = [c EXCEPT !.pc = "none"]
            /\ UNCHANGED dev
       ELSE /\ dev' = [dev EXCEPT !.current_buffer = 0,
                                  !.missing_frame_count = U32Zero,
                                  !.last_frame_counter = U32Zero,
                                  !.first_frame_received = FALSE]
            /\ ctl' = [c EXCEPT !.pc = "start_submit"]
    /\ UNCHANGED <<worker, obs, fed, calls, hw, cb, udp, wire, put_log,
                   faults>>

\* ioctl(ANTSDR_IOC_START_STREAMING)
IoctlStart == MayEnter /\ StartBegin(Enter("START_STREAMING", 0))

\* the restart of ioctl(ANTSDR_IOC_SET_PULSE_MODE)
ModeStart == ctl.pc = "start_begin" /\ StartBegin(ctl)

\* mutant: a failed first submission leaves the streaming flag set
StartSubmitKeepsFlag ==
    /\ ctl.pc = "start_submit"
    /\ \E ok \in BOOLEAN :
         /\ MayFail(ok)
         /\ faults' = Charge(ok)
         /\ \E s \in {antsdr_submit_dma_transfer(
                         [dev EXCEPT !.streaming = TRUE], hw, ok)} :
              /\ hw' = s.hw
              /\ dev' = IF s.ret # 0
                        THEN s.dev
                        ELSE [s.dev EXCEPT !.gpio_enable = 1]
              /\ ctl' = [ctl EXCEPT !.pc = "none",
                                    !.mark = IF s.ret = 0 THEN calls ELSE @]
              /\ obs' = obs
    /\ UNCHANGED <<worker, fed, calls, cb, udp, wire, put_log>>

\* the flag set, the first transfer submitted, data generation enabled
StartSubmit ==
    /\ ctl.pc = "start_submit"
    /\ \E ok \in BOOLEAN :
         /\ MayFail(ok)
         /\ faults' = Charge(ok)
         /\ \E s \in {antsdr_submit_dma_transfer(
                         [dev EXCEPT !.streaming = TRUE], hw, ok)} :
              /\ hw' = s.hw
              /\ dev' = IF s.ret # 0
                        THEN [s.dev EXCEPT !.streaming = FALSE,
                                           !.gpio_enable = 0]
                        ELSE [s.dev EXCEPT !.gpio_enable = 1]
              /\ ctl' = [ctl EXCEPT !.pc = "none",
                                    !.mark = IF s.ret = 0 THEN calls ELSE @]
              /\ obs' = obs
    /\ UNCHANGED <<worker, fed, calls, cb, udp, wire, put_log>>

\* antsdr_dma_stop_streaming up to dmaengine_terminate_async
StopBegin(c) ==
    /\ IF ~dev.streaming
       THEN /\ ctl' = [c EXCEPT !.pc = AfterStop(c)]
            /\ UNCHANGED <<dev, hw>>
       ELSE /\ dev' = [dev EXCEPT !.streaming = FALSE, !.gpio_enable = 0]
            /\ hw' = dmaengine_terminate_async(hw)
            /\ ctl' = [c EXCEPT !.pc = "stop_wait"]
    /\ UNCHANGED <<worker, obs, fed, calls, cb, udp, wire, put_log, faults>>

\* ioctl(ANTSDR_IOC_STOP_STREAMING)
IoctlStop == MayEnter /\ StopBegin(Enter("STOP_STREAMING", 0))

\* the stop of ioctl(ANTSDR_IOC_SET_PULSE_MODE)
ModeStop == ctl.pc = "stop_begin" /\ StopBegin(ctl)

\* wait_for_completion_timeout returns: a completion consumed, or the
\* timeout and reinit_completion.  flush_workqueue then waits for the frame
\* work queued or running at that moment, if any.
\* mutant: a wait for the completion with no timeout
StopWaitForever ==
    /\ ctl.pc = "stop_wait"
    /\ dev.dma_complete > 0
    /\ dev' = [dev EXCEPT !.dma_complete = @ - 1]
    /\ ctl' = [ctl EXCEPT !.pc = IF dev.frame_work \/ worker.pc # "idle"
                                 THEN "stop_flush" ELSE "stop_clear"]
    /\ obs' = obs
    /\ UNCHANGED <<worker, fed, calls, hw, cb, udp, wire, put_log, faults>>

StopWait ==
    /\ ctl.pc = "stop_wait"
    /\ dev' = [dev EXCEPT !.dma_complete = IF @ > 0 THEN @ - 1 ELSE 0]
    /\ ctl' = [ctl EXCEPT !.pc = IF dev.frame_work \/ worker.pc # "idle"
                                 THEN "stop_flush" ELSE "stop_clear"]
    /\ obs' = obs
    /\ UNCHANGED <<worker, fed, calls, hw, cb, udp, wire, put_log, faults>>

StopFlush ==
    /\ ctl.pc = "stop_flush"
    /\ ~dev.frame_work
    /\ worker.pc = "idle"
    /\ ctl' = [ctl EXCEPT !.pc = "stop_clear"]
    /\ obs' = obs
    /\ UNCHANGED <<dev, worker, fed, calls, hw, cb, udp, wire, put_log,
                   faults>>

\* kfifo_reset and the pending flag cleared; the function returns
StopClear ==
    /\ ctl.pc = "stop_clear"
    /\ dev' = [dev EXCEPT !.raw_frame_fifo = <<>>,
                          !.frame_work_pending = FALSE]
    /\ ctl' = [ctl EXCEPT !.pc = AfterStop(ctl)]
    /\ obs' = obs
    /\ UNCHANGED <<worker, fed, calls, hw, cb, udp, wire, put_log, faults>>

\* ioctl(ANTSDR_IOC_SET_PULSE_MODE): the streaming flag read
IoctlSetPulseMode ==
    /\ MayEnter
    /\ \E value \in {0, 1} :
         ctl' = [Enter("SET_PULSE_MODE", value) EXCEPT
                    !.was_streaming = dev.streaming,
                    !.pc = IF dev.streaming THEN "stop_begin"
                                            ELSE "mode_apply"]
    /\ obs' = obs
    /\ UNCHANGED <<dev, worker, fed, calls, hw, cb, udp, wire, put_log,
                   faults>>

ModeApply ==
    /\ ctl.pc = "mode_apply"
    /\ dev' = [dev EXCEPT !.pulse_mode = IF ctl.value # 0 THEN 1 ELSE 0]
    /\ ctl' = [ctl EXCEPT !.pc = IF ctl.was_streaming THEN "start_begin"
                                                      ELSE "none"]
    /\ obs' = obs
    /\ UNCHANGED <<worker, fed, calls, hw, cb, udp, wire, put_log, faults>>

Init ==
    /\ \E junk \in JunkWords : dev = DevInit(junk)
    /\ InitRest

Next ==
    \/ DmaCallback \/ CallbackRearm \/ ResetCheck \/ ResetRestart
    \/ FrameWorkStart \/ FrameWorkStep \/ FrameWorkBreak \/ FrameWorkEnd
    \/ UdpWorkStart \/ UdpGet \/ UdpFragment \/ UdpEnd
    \/ IoctlStart \/ StartSubmit
    \/ IoctlStop \/ StopWait \/ StopFlush \/ StopClear
    \/ IoctlSetPulseMode \/ ModeStop \/ ModeApply \/ ModeStart

Spec == Init /\ [][Next]_vars

(***************************************************************************)
(* SpecSeq: the pipeline entered with the packet sequence number and the   *)
(* frame id counter at zero, or two before they wrap (every frame before   *)
(* having failed at its first fragment)                                    *)
(***************************************************************************)
InitSeq ==
    /\ \E seq \in {U32Zero, U32Sub(U32Max, U32One)} :
          dev = [DevInit(U32Zero) EXCEPT !.packet_sequence_number = seq,
                                         !.frame_id_counter = seq]
    /\ InitRest

SpecSeq == InitSeq /\ [][Next]_vars

(***************************************************************************)
(* SpecBatch: the frame worker alone, entered with a backlog: the callback *)
(* has queued n transfers and scheduled the work, and the worker has not   *)
(* run yet                                                                 *)
(***************************************************************************)
Backlog(n, in) ==
    [i \in 1..n |-> [data |-> in, data_len |-> 4 * in.len]]

InitBatch ==
    /\ \E n \in {FrameWorkBatch - 1, FrameWorkBatch, FrameWorkBatch + 1,
                  MaxQueued},
          in \in PipelineTransfers(FrameWords(0)) :
          /\ dev = [DevInit(U32Zero) EXCEPT
                       !.streaming = TRUE,
                       !.gpio_enable = 1,
                       !.raw_frame_fifo = Backlog(n, in),
                       !.frame_work_pending = TRUE,
                       !.frame_work = TRUE,
                       !.stats.transfers_completed = n,
                       !.stats.bytes_transferred = n * 4 * in.len]
          /\ calls = n
    /\ worker = WorkerInit
    /\ obs = NoObs
    /\ fed = <<>>
    /\ hw = [inflight |-> 1]
    /\ cb = [pc |-> "idle"]
    /\ udp = UdpInit
    /\ ctl = [CtlInit EXCEPT !.n = 1, !.cmd = "START_STREAMING", !.mark = 0]
    /\ wire = [put |-> NoPut, packets |-> <<>>, done |-> FALSE]
    /\ put_log = [s \in 0..(RingSlots - 1) |-> NoPut]
    /\ faults = 0

NextBatch ==
    FrameWorkStart \/ FrameWorkStep \/ FrameWorkBreak \/ FrameWorkEnd

SpecBatch == InitBatch /\ [][NextBatch]_vars

(***************************************************************************)
(* SpecDrain: the packetizer draining the ring while the worker keeps      *)
(* storing valid frames into the slots it frees                            *)
(***************************************************************************)
DrainFeed ==
    /\ calls < MaxDrained
    /\ dev.ring_count < RingSlots
    /\ calls' = calls + 1
    /\ \E in \in {Tr(FrameWords(dev.pulse_mode), 0,
                      FrameWords(dev.pulse_mode) - 1,
                      FPGA_HEADER_MARKER_1, U32FromNat(5), FALSE)} :
          FrameWorkIteration(dev, in, FALSE)
    /\ UNCHANGED contexts

\* the packetizer at the head of its loop once the worker has stored the
\* next frame, or has no more to store
DrainGet == UdpGet /\ (dev.ring_count > 0 \/ calls >= MaxDrained)

NextDrain ==
    DrainFeed \/ UdpWorkStart \/ DrainGet \/ UdpFragment \/ UdpEnd

SpecDrain == InitExtract /\ [][NextDrain]_vars

(***************************************************************************)
(* SpecRing: the payload ring driven call by call: put, get, release       *)
(***************************************************************************)
\* the payload of the k-th call: every word holds k
RingPayload(k, size) == [i \in 1..(size \div 4) |-> U32FromNat(k)]

RingPutCall ==
    /\ calls < MaxRingCalls
    /\ calls' = calls + 1
    /\ LET size == PayloadLen(Expected(dev.pulse_mode))
           r == antsdr_ring_put(dev, RingPayload(calls + 1, size), size)
       IN  /\ dev' = r.dev
           /\ obs' = [op |-> "ring_put", ret |-> r.ret]
           /\ fed' = IF r.ret = 0 THEN Append(fed, U32FromNat(calls + 1))
                                  ELSE fed
    /\ UNCHANGED <<worker, put_log, faults>>
    /\ UNCHANGED contexts

RingGetCall ==
    /\ calls < MaxRingCalls
    /\ calls' = calls + 1
    /\ LET g == antsdr_ring_get(dev)
       IN  obs' = [op |-> "ring_get", ret |-> g.ret, data |-> g.data,
                   size |-> g.size]
    /\ UNCHANGED <<dev, worker, fed, put_log, faults>>
    /\ UNCHANGED contexts

RingReturnCall ==
    /\ calls < MaxRingCalls
    /\ calls' = calls + 1
    /\ dev' = antsdr_ring_return_buffer(dev)
    /\ obs' = [op |-> "ring_return"]
    /\ UNCHANGED <<worker, fed, put_log, faults>>
    /\ UNCHANGED contexts

NextRing == RingPutCall \/ RingGetCall \/ RingReturnCall

SpecRing == InitExtract /\ [][NextRing]_vars

(***************************************************************************)
(* SpecConsumers: the two consumers of the payload ring, the packetizer    *)
(* (antsdr_udp_work) and read() on the character device, with the worker   *)
(* putting.  Each consumer calls antsdr_ring_get and then                  *)
(* antsdr_ring_return_buffer, two regions of ring_lock; read() makes both  *)
(* calls under the statistics lock, which the packetizer does not take.    *)
(* obs holds what each consumer got and has not released yet, and the      *)
(* payloads delivered and released so far.                                 *)
(***************************************************************************)
Consumers == {"udp_work", "read"}

ConsumersInit ==
    [op |-> "consumers", udp_work |-> <<>>, read |-> <<>>,
     delivered |-> <<>>, released |-> <<>>]

Held == IF obs.op = "consumers" THEN obs ELSE ConsumersInit

\* antsdr_frame_work stores a payload
ConsumersPut ==
    /\ calls < MaxRingCalls
    /\ calls' = calls + 1
    /\ LET size == PayloadLen(Expected(dev.pulse_mode))
           r == antsdr_ring_put(dev, RingPayload(calls + 1, size), size)
       IN  /\ dev' = r.dev
           /\ fed' = IF r.ret = 0 THEN Append(fed, U32FromNat(calls + 1))
                                  ELSE fed
    /\ obs' = Held
    /\ UNCHANGED <<worker, put_log, faults>>
    /\ UNCHANGED contexts

\* antsdr_ring_get by consumer c, a payload found; the payload is read
\* through the pointer returned
ConsumerGet(c) ==
    /\ calls < MaxRingCalls
    /\ Held[c] = <<>>
    /\ LET g == antsdr_ring_get(dev)
       IN  /\ g.ret = 0
           /\ obs' = [Held EXCEPT
                        ![c] = <<dev.ring_buffers[g.data][1]>>,
                        !.delivered =
                            Append(@, [to |-> c,
                                       payload |-> dev.ring_buffers[g.data][1]])]
    /\ calls' = calls + 1
    /\ UNCHANGED <<dev, worker, fed, put_log, faults>>
    /\ UNCHANGED contexts

\* antsdr_ring_return_buffer by consumer c: the slot at ring_tail is released
ConsumerReturn(c) ==
    /\ Held[c] # <<>>
    /\ dev' = antsdr_ring_return_buffer(dev)
    /\ obs' = [Held EXCEPT
                 ![c] = <<>>,
                 !.released =
                     IF dev.ring_count > 0
                     THEN Append(@, [by |-> c,
                                     payload |-> dev.ring_buffers[dev.ring_tail][1],
                                     read |-> Held[c][1]])
                     ELSE @]
    /\ UNCHANGED <<worker, fed, calls, put_log, faults>>
    /\ UNCHANGED contexts

NextConsumers ==
    \/ ConsumersPut
    \/ \E c \in Consumers : ConsumerGet(c)
    \/ \E c \in Consumers : ConsumerReturn(c)

SpecConsumers == InitExtract /\ [][NextConsumers]_vars

(***************************************************************************)
(* SpecLocks: the lock regions of the five execution contexts.  Each       *)
(* context runs, again and again, the lock operations of its code in       *)
(* program order: the acquisition and the release of a spinlock, and the   *)
(* calls that wait for another context or may sleep.  A region that occurs *)
(* several times in a function with the same shape is listed once.         *)
(***************************************************************************)
Locks == {"lock", "ring_lock", "raw_fifo_lock", "frame_buffer_lock"}

Contexts == {"callback", "frame_work", "udp_work", "read", "ioctl"}

Acq(l) == [op |-> "acquire", on |-> l]
Rel(l) == [op |-> "release", on |-> l]
Wait(w) == [op |-> "wait", on |-> w]

\* antsdr_ring_put, antsdr_ring_get, antsdr_ring_return_buffer
RingRegion == <<Acq("ring_lock"), Rel("ring_lock")>>

\* a region of the statistics lock with no call inside
StatsRegion == <<Acq("lock"), Rel("lock")>>

FifoRegion == <<Acq("raw_fifo_lock"), Rel("raw_fifo_lock")>>

\* antsdr_frame_buffer_add, antsdr_frame_buffer_reset
BufferRegion == <<Acq("frame_buffer_lock"), Rel("frame_buffer_lock")>>

\* antsdr_frame_buffer_process: the ring put and the statistics update made
\* with frame_buffer_lock held
ProcessRegion ==
    <<Acq("frame_buffer_lock")>> \o RingRegion \o StatsRegion
        \o <<Rel("frame_buffer_lock")>>

\* antsdr_dma_callback, with antsdr_dma_reset_and_restart
CallbackScript ==
    StatsRegion \o FifoRegion \o StatsRegion \o BufferRegion

\* antsdr_frame_work, with antsdr_parse_fpga_frame
FrameWorkScript ==
    FifoRegion \o BufferRegion \o ProcessRegion \o RingRegion
        \o StatsRegion \o FifoRegion

\* antsdr_udp_work
UdpWorkScript ==
    <<Wait("kmalloc")>> \o RingRegion \o RingRegion \o StatsRegion
        \o <<Wait("kernel_sendmsg")>> \o StatsRegion

\* mutant: a read that takes frame_buffer_lock with ring_lock held
ReadScriptBufferInside ==
    <<Wait("kmalloc"), Acq("ring_lock")>> \o BufferRegion
        \o <<Rel("ring_lock"), Wait("copy_to_user")>>

\* antsdr_dma_read: get and release made with the statistics lock held
ReadScript ==
    <<Wait("kmalloc"), Acq("lock")>> \o RingRegion \o RingRegion
        \o <<Rel("lock"), Wait("copy_to_user")>>

\* antsdr_dma_ioctl: antsdr_dma_stop_streaming, then
\* antsdr_dma_start_streaming
IoctlScript ==
    StatsRegion
        \o <<Wait("wait_for_completion_timeout"), Wait("flush_workqueue")>>
        \o FifoRegion \o StatsRegion

Script(c) ==
    CASE c = "callback" -> CallbackScript
      [] c = "frame_work" -> FrameWorkScript
      [] c = "udp_work" -> UdpWorkScript
      [] c = "read" -> ReadScript
      [] c = "ioctl" -> IoctlScript

\* the operation context c is at
NextOp(c) == Script(c)[obs.at[c]]

After(c) == IF obs.at[c] = Len(Script(c)) THEN 1 ELSE obs.at[c] + 1

Holds(c) == {l \in Locks : obs.owner[l] = c}

LockAcquire ==
    /\ \E c \in Contexts :
         /\ NextOp(c).op = "acquire"
         /\ obs.owner[NextOp(c).on] = "free"
         /\ obs' = [obs EXCEPT !.owner[NextOp(c).on] = c, !.at[c] = After(c)]
    /\ UNCHANGED <<dev, worker, fed, calls, hw, cb, udp, ctl, wire, put_log,
                   faults>>

LockRelease ==
    /\ \E c \in Contexts :
         /\ NextOp(c).op = "release"
         /\ obs' = [obs EXCEPT !.owner[NextOp(c).on] = "free",
                               !.at[c] = After(c)]
    /\ UNCHANGED <<dev, worker, fed, calls, hw, cb, udp, ctl, wire, put_log,
                   faults>>

LockWait ==
    /\ \E c \in Contexts :
         /\ NextOp(c).op = "wait"
         /\ obs' = [obs EXCEPT !.at[c] = After(c)]
    /\ UNCHANGED <<dev, worker, fed, calls, hw, cb, udp, ctl, wire, put_log,
                   faults>>

InitLocks ==
    /\ dev = DevInit(U32Zero)
    /\ obs = [op |-> "locks",
              owner |-> [l \in Locks |-> "free"],
              at |-> [c \in Contexts |-> 1]]
    /\ worker = WorkerInit
    /\ fed = <<>>
    /\ calls = 0
    /\ hw = [inflight |-> 0]
    /\ cb = [pc |-> "idle"]
    /\ udp = UdpInit
    /\ ctl = CtlInit
    /\ wire = [put |-> NoPut, packets |-> <<>>, done |-> FALSE]
    /\ put_log = [s \in 0..(RingSlots - 1) |-> NoPut]
    /\ faults = 0

NextLocks == LockAcquire \/ LockRelease \/ LockWait

SpecLocks == InitLocks /\ [][NextLocks]_vars

(***************************************************************************)
(* SpecRingRace: the payload ring with the clear of                        *)
(* antsdr_dma_reset_and_restart.  The put holds ring_lock; the clear holds *)
(* the statistics lock, so it may fall inside the put, which is followed   *)
(* in two steps: up to the copy, then the stores to head and count.        *)
(***************************************************************************)
\* antsdr_ring_put up to the copy: the count checked, next_head computed
RacePutBegin ==
    /\ calls < MaxRingCalls
    /\ worker.pc = "idle"
    /\ dev.ring_count < RingSlots
    /\ calls' = calls + 1
    /\ LET size == PayloadLen(Expected(dev.pulse_mode))
       IN  dev' = [dev EXCEPT !.ring_buffers[dev.ring_head] =
                                 Memcpy(@, RingPayload(calls + 1, size))]
    /\ worker' = [pc |-> "ring_put", processed_frames |-> 0,
                  out |-> NoPayload,
                  next_head |-> (dev.ring_head + 1) % RingSlots]
    /\ UNCHANGED <<obs, fed, put_log, faults>>
    /\ UNCHANGED contexts

\* "dma_dev->ring_head = next_head; dma_dev->ring_count++;"
RacePutEnd ==
    /\ worker.pc = "ring_put"
    /\ dev' = [dev EXCEPT !.ring_head = worker.next_head,
                          !.ring_count = @ + 1]
    /\ worker' = WorkerInit
    /\ UNCHANGED <<obs, fed, calls, put_log, faults>>
    /\ UNCHANGED contexts

\* antsdr_dma_reset_and_restart: the ring indices cleared
RaceClear ==
    /\ calls < MaxRingCalls
    /\ calls' = calls + 1
    /\ dev' = [dev EXCEPT !.ring_head = 0, !.ring_tail = 0,
                          !.ring_count = 0]
    /\ UNCHANGED <<worker, obs, fed, put_log, faults>>
    /\ UNCHANGED contexts

NextRingRace ==
    \/ RacePutBegin \/ RacePutEnd
    \/ RaceClear

SpecRingRace == InitExtract /\ [][NextRingRace]_vars

(***************************************************************************)
(* SpecLive: the pipeline with its scheduling.  The thread in stop runs    *)
(* (its wait has a timeout), and the frame workqueue runs the work queued  *)
(* on it.                                                                  *)
(***************************************************************************)
StopRuns == StopWait \/ StopFlush \/ StopClear

\* the steps of antsdr_frame_work around its loop body
FrameWorkMoves == FrameWorkStart \/ FrameWorkBreak \/ FrameWorkEnd

\* the loop body of antsdr_frame_work can run
FrameWorkStepEnabled ==
    /\ worker.pc = "loop"
    /\ worker.processed_frames < FrameWorkBatch
    /\ dev.raw_frame_fifo # <<>>

\* weak fairness of FrameWorkStep, its enabling condition written out
FrameWorkStepRuns ==
    []<>(~FrameWorkStepEnabled) \/ []<><<FrameWorkStep>>_vars

SpecLive ==
    /\ Init
    /\ [][Next]_vars
    /\ WF_vars(StopRuns)
    /\ WF_vars(FrameWorkMoves)
    /\ FrameWorkStepRuns

(***************************************************************************)
(* SpecWake: the scheduling of the frame work.  The callback's kfifo_in    *)
(* under raw_fifo_lock, its read of frame_work_pending, and its write of   *)
(* the flag with queue_work are separate steps, interleaved with the       *)
(* worker and with start and stop.                                         *)
(***************************************************************************)
\* from entry to the release of raw_fifo_lock after kfifo_in
WakeEnqueue ==
    /\ cb.pc = "idle"
    /\ hw.inflight > 0
    /\ calls < MaxTransfers
    /\ Spent < MaxEvents
    /\ calls' = calls + 1
    /\ hw' = [hw EXCEPT !.inflight = @ - 1]
    /\ \E in \in PipelineTransfers(FrameWords(dev.pulse_mode)) :
         LET d1 == [dev EXCEPT
                      !.stats.transfers_completed = @ + 1,
                      !.stats.bytes_transferred =
                          @ + antsdr_get_transfer_size(dev)]
         IN  IF ~(d1.dest_set
                  /\ antsdr_get_transfer_size(d1) <= MAX_S2MM_TRANSFER_SIZE)
             THEN dev' = d1 /\ cb' = [pc |-> "streaming"]
             ELSE IF Len(d1.raw_frame_fifo) < FifoSlots
             THEN /\ dev' = [d1 EXCEPT !.raw_frame_fifo =
                               Append(@, [data |-> in,
                                          data_len |->
                                             antsdr_get_transfer_size(d1)])]
                  /\ cb' = [pc |-> "queued"]
             ELSE dev' = count_error(d1) /\ cb' = [pc |-> "streaming"]
    /\ obs' = obs
    /\ UNCHANGED <<worker, fed, udp, ctl, wire, put_log, faults>>

\* "if (!dma_dev->frame_work_pending)": the flag read, no lock held
WakeRead ==
    /\ cb.pc = "queued"
    /\ cb' = [pc |-> "decide", saw |-> dev.frame_work_pending]
    /\ obs' = obs
    /\ UNCHANGED <<dev, worker, fed, calls, hw, udp, ctl, wire, put_log,
                   faults>>

\* the flag set and queue_work, when the flag was read as false
WakeSet ==
    /\ cb.pc = "decide"
    /\ dev' = IF ~cb.saw
              THEN [dev EXCEPT !.frame_work_pending = TRUE,
                               !.frame_work = TRUE]
              ELSE dev
    /\ cb' = [pc |-> "streaming"]
    /\ obs' = obs
    /\ UNCHANGED <<worker, fed, calls, hw, udp, ctl, wire, put_log, faults>>

\* skip_frame_processing: the streaming flag checked under the lock
WakeStreaming ==
    /\ cb.pc = "streaming"
    /\ IF ~dev.streaming
       THEN /\ dev' = complete(dev)
            /\ cb' = [pc |-> "idle"]
       ELSE /\ dev' = [dev EXCEPT !.current_buffer = (@ + 1) % NUM_BUFFERS]
            /\ cb' = [pc |-> "rearm"]
    /\ obs' = obs
    /\ UNCHANGED <<worker, fed, calls, hw, udp, ctl, wire, put_log, faults>>

CallbackMoves == WakeRead \/ WakeSet \/ WakeStreaming

NextWake ==
    \/ WakeEnqueue \/ WakeRead \/ WakeSet \/ WakeStreaming
    \/ CallbackRearm \/ ResetCheck \/ ResetRestart
    \/ FrameWorkStart \/ FrameWorkStep \/ FrameWorkBreak \/ FrameWorkEnd
    \/ IoctlStart \/ StartSubmit
    \/ IoctlStop \/ StopWait \/ StopFlush \/ StopClear

(***************************************************************************)
(* SpecWakeLive: SpecWake with its scheduling: the callback, once entered, *)
(* runs to its end, and frame_workqueue runs the work queued on it.        *)
(***************************************************************************)
SpecWakeLive ==
    /\ Init
    /\ [][NextWake]_vars
    /\ WF_vars(CallbackMoves)
    /\ WF_vars(FrameWorkMoves)
    /\ FrameWorkStepRuns

(***************************************************************************)
(* Claims                                                                  *)
(***************************************************************************)
\* the step is an iteration of the worker loop on a transfer of kind K
WorkerStepOn(K(_, _)) ==
    /\ obs'.op = "frame_work"
    /\ K(obs'.in, FrameWords(dev.pulse_mode))

ExtractsPayload ==
    /\ obs'.ret = 0
    /\ obs'.out.set
    /\ obs'.out.obj = obs'.in
    /\ obs'.out.off = obs'.in.hpos + 1
    /\ obs'.out.len = (FrameWords(dev.pulse_mode) - 3) * 4

RingUnchanged ==
    /\ dev'.ring_buffers = dev.ring_buffers
    /\ dev'.ring_head = dev.ring_head
    /\ dev'.ring_tail = dev.ring_tail
    /\ dev'.ring_count = dev.ring_count

AccumulationUnchanged ==
    /\ dev'.frame_detection_buffer = dev.frame_detection_buffer
    /\ dev'.frame_buffer_used = dev.frame_buffer_used
    /\ dev'.frames_accumulated = dev.frames_accumulated

GapUnchanged ==
    /\ dev'.missing_frame_count = dev.missing_frame_count
    /\ dev'.last_frame_counter = dev.last_frame_counter
    /\ dev'.first_frame_received = dev.first_frame_received

\* C1 as claimed: a transfer holding one well-formed frame is extracted
\* with a payload of (expected_words - 3) * 4 bytes starting at the word after
\* the start marker, and valid_frames and extracted_frames each grow by 1.
C1_AsClaimed ==
    [][WorkerStepOn(Good) =>
         /\ ExtractsPayload
         /\ dev'.stats.valid_frames = dev.stats.valid_frames + 1
         /\ dev'.stats.extracted_frames = dev.stats.extracted_frames + 1]_vars

\* C2: a transfer with both markers and a wrong span is rejected: parse fails,
\* invalid_frames grows by exactly 1, nothing is put into the ring, nothing is
\* added to the accumulation buffer, the gap-tracking state is unchanged.
C2_Mismatch ==
    [][WorkerStepOn(Mismatch) =>
         /\ obs'.ret = -1
         /\ dev'.stats.invalid_frames = dev.stats.invalid_frames + 1
         /\ dev'.stats.valid_frames = dev.stats.valid_frames
         /\ dev'.stats.extracted_frames = dev.stats.extracted_frames
         /\ RingUnchanged
         /\ AccumulationUnchanged
         /\ GapUnchanged]_vars

\* a mismatching transfer was rejected while the ring, the accumulation buffer
\* and the gap-tracking state all held something
C2_Witness ==
    /\ obs.op = "frame_work"
    /\ Mismatch(obs.in, FrameWords(dev.pulse_mode))
    /\ obs.ret = -1
    /\ dev.ring_count > 0
    /\ dev.frames_accumulated > 0
    /\ dev.first_frame_received

\* counter > last_counter + 1 over the integers
GapAhead(counter, last) == last # U32Max /\ U32Lt(U32Inc(last), counter)

Ctrs(s) == [i \in 1..Len(s) |-> U32FromNat(s[i])]

\* C3 as claimed: the first valid frame seeds last_counter; later a counter
\* above last_counter + 1 adds counter - last_counter - 1 to missing_count and
\* a counter <= last_counter leaves it unchanged; [5,6,8,9] and [5,7,6] give 1.
C3_AsClaimed ==
    [][(obs'.op = "frame_work" /\ obs'.ret = 0) =>
         LET c == obs'.in.ctr
             last == dev.last_frame_counter
         IN  /\ dev'.last_frame_counter = c
             /\ dev'.first_frame_received
             /\ ~dev.first_frame_received =>
                   dev'.missing_frame_count = dev.missing_frame_count
             /\ (dev.first_frame_received /\ GapAhead(c, last)) =>
                   dev'.missing_frame_count =
                       U32Add(dev.missing_frame_count,
                              U32Sub(U32Sub(c, last), U32One))
             /\ (dev.first_frame_received /\ ~U32Lt(last, c)) =>
                   dev'.missing_frame_count = dev.missing_frame_count
             /\ fed' = Ctrs(<<5, 6, 8, 9>>) =>
                   dev'.missing_frame_count = U32One
             /\ fed' = Ctrs(<<5, 7, 6>>) =>
                   dev'.missing_frame_count = U32One]_vars

(***************************************************************************)
(* Claims on the pipeline                                                  *)
(***************************************************************************)
Last(seq) == seq[Len(seq)]

CeilDiv(a, b) == (a + b - 1) \div b

\* the payload bytes of the packets, in the order built
RECURSIVE Reassemble(_)
Reassemble(packets) ==
    IF packets = <<>> THEN <<>>
    ELSE Head(packets).payload \o Reassemble(Tail(packets))

RECURSIVE SumPayloadLength(_)
SumPayloadLength(packets) ==
    IF packets = <<>> THEN 0
    ELSE Head(packets).header.payload_length + SumPayloadLength(Tail(packets))

\* length in bytes of the payload put into the slot the packetizer took
PutLen == wire.put.src.len

\* C4 as claimed: for a slot holding a payload of L bytes the packetizer emits
\* exactly ceil(L / 1360) packets, with fragment_index 0..count-1,
\* fragment_count = count and fragment_offset = fragment_index * 1360, and the
\* fragment bytes concatenated in offset order are the payload exactly.
C4_AsClaimed ==
    wire.done =>
        LET count == CeilDiv(PutLen, 1360)
        IN  /\ Len(wire.packets) = count
            /\ \A i \in 1..Len(wire.packets) :
                  /\ wire.packets[i].header.fragment_index = i - 1
                  /\ wire.packets[i].header.fragment_count = count
                  /\ wire.packets[i].header.fragment_offset = (i - 1) * 1360
            /\ Reassemble(wire.packets) = PutBytes(wire.put)

\* C5 as claimed: every packet emitted for a payload put with length L (200
\* bytes in short mode, 1600 in long mode) carries frame_payload_total = L and
\* fragment_count = ceil(L / 1360), the payload_length values sum to L, and
\* the fragments of the frame id reassemble to L bytes and nothing else.
C5_AsClaimed ==
    wire.done =>
        /\ PutLen = (FrameWords(IF PutLen > 200 THEN 1 ELSE 0) - 3) * 4
        /\ \A i \in 1..Len(wire.packets) :
              /\ wire.packets[i].header.frame_payload_total = PutLen
              /\ wire.packets[i].header.fragment_count = CeilDiv(PutLen, 1360)
              /\ wire.packets[i].header.frame_id =
                    wire.packets[1].header.frame_id
        /\ SumPayloadLength(wire.packets) = PutLen
        /\ 4 * Len(Reassemble(wire.packets)) = PutLen

\* the step is an iteration of the worker loop
WorkerIterates == worker'.processed_frames = worker.processed_frames + 1

\* the transfer at the head of the raw-transfer queue holds a well-formed frame
HeadIsGood ==
    /\ dev.raw_frame_fifo # <<>>
    /\ Good(Head(dev.raw_frame_fifo).data, FrameWords(dev.pulse_mode))

FullRing == dev.ring_count = RingSlots

\* every occupied slot holds the payload that was put into it
OccupiedIntact ==
    \A k \in 0..(dev.ring_count - 1) :
        LET s == (dev.ring_tail + k) % RingSlots
        IN  Slice(dev.ring_buffers[s], 0, put_log[s].src.len \div 4)
              = PutBytes(put_log[s])

\* C6: a put on a full ring fails and leaves head, tail, count and the contents
\* of every slot as they were, and the error counter grows by 1; no step writes
\* a slot while the ring is full, and every occupied slot holds what was put
\* into it.
C6_FullRing ==
    /\ []OccupiedIntact
    /\ [][FullRing => dev'.ring_buffers = dev.ring_buffers]_vars
    /\ [][(FullRing /\ WorkerIterates /\ HeadIsGood) =>
             /\ RingUnchanged
             /\ dev'.stats.errors = dev.stats.errors + 1
             /\ dev'.stats.valid_frames = dev.stats.valid_frames]_vars

\* three transfers were parsed, none was invalid, two were stored and the
\* third was dropped on a full ring
C6_Witness ==
    /\ FullRing
    /\ dev.total_frames_processed = 3
    /\ dev.stats.invalid_frames = 0
    /\ dev.stats.valid_frames = 2
    /\ dev.stats.errors = 1
    /\ faults = 0

\* the packetizer took slot s and has not yet copied its last fragment
Referenced(s) == udp.pc = "frag" /\ udp.ring_data = s

\* the step is a successful put by the worker
WorkerPuts == WorkerIterates /\ dev'.ring_count = dev.ring_count + 1

\* C7 as claimed: between the packetizer's get of a slot and its copy of the
\* frame's last fragment, no put writes into that slot.
C7_AsClaimed == [][~(WorkerPuts /\ Referenced(dev.ring_head))]_vars

\* the buffer holds transfer A followed by transfer B and nothing else
HoldsSplitFrame ==
    /\ dev.frames_accumulated = 2
    /\ dev.frame_detection_buffer =
          Build(SplitHead) \o Build(SplitTail(FrameWords(dev.pulse_mode)))

\* C8 as claimed: with transfer A (start marker, 100 bytes) and transfer B (the
\* rest of the frame, ending with the end marker) accumulated, a reprocessing
\* pass yields exactly one valid frame (valid_frames and extracted_frames +1,
\* one payload put into the ring) and leaves the buffer empty, in either mode.
C8_AsClaimed ==
    [][(HoldsSplitFrame /\ obs'.op = "buffer_process") =>
         /\ obs'.frames_found = 1
         /\ dev'.stats.valid_frames = dev.stats.valid_frames + 1
         /\ dev'.stats.extracted_frames = dev.stats.extracted_frames + 1
         /\ dev'.ring_count = dev.ring_count + 1
         /\ dev'.frame_buffer_used = 0
         /\ dev'.frames_accumulated = 0]_vars

\* antsdr_dma_stop_streaming returns from a stop it performed
StopReturns == ctl.pc = "stop_clear" /\ ctl'.pc # "stop_clear"

\* no transfer has completed since streaming was started
QuietSession == ctl.mark = calls

\* C9 as claimed: a start followed by a stop with no transfer completing in
\* between ends with streaming false, the gap-tracking state reset, and the
\* raw-transfer queue, the accumulation buffer and the payload ring empty.
C9_AsClaimed ==
    [][(StopReturns /\ QuietSession) =>
         /\ ~dev'.streaming
         /\ ~dev'.first_frame_received
         /\ dev'.missing_frame_count = U32Zero
         /\ dev'.raw_frame_fifo = <<>>
         /\ dev'.frame_buffer_used = 0
         /\ dev'.frames_accumulated = 0
         /\ dev'.ring_count = 0]_vars

\* the step builds a packet
PacketBuilt == Len(wire'.packets) = Len(wire.packets) + 1

\* C10: each packet built carries the sequence number that follows that of the
\* packet built before it, modulo 2^32, and no other step changes the counter:
\* not a start, a stop, a pulse-mode change, a reset-and-restart or a failed
\* send.
C10_Sequence ==
    [][/\ PacketBuilt =>
            /\ Last(wire'.packets).header.sequence_number
                  = dev.packet_sequence_number
            /\ dev'.packet_sequence_number
                  = U32Inc(dev.packet_sequence_number)
       /\ ~PacketBuilt =>
            dev'.packet_sequence_number = dev.packet_sequence_number]_vars

\* the third packet of a run, numbered 0 after the wrap, was built once
\* streaming had been stopped
C10_Witness ==
    /\ wire.packets # <<>>
    /\ Last(wire.packets).header.sequence_number = U32Zero
    /\ dev.packet_sequence_number = U32One
    /\ dev.stats.udp_packets_sent = 3
    /\ ctl.cmd = "STOP_STREAMING"
    /\ ~dev.streaming

\* the step is the packetizer taking a slot from the ring
SlotTaken == udp.pc = "loop" /\ udp'.pc = "frag"

\* C11: the packetizer gives each slot it takes the value of the frame id
\* counter and adds 1 to the counter (modulo 2^32); no other step changes the
\* counter or the id held for the slot, and every packet built for the slot
\* carries that id: ids of successive slots differ by exactly 1.
C11_FrameId ==
    /\ [](udp.pc = "frag" =>
            /\ U32Inc(udp.current_frame_id) = dev.frame_id_counter
            /\ \A i \in 1..Len(wire.packets) :
                  wire.packets[i].header.frame_id = udp.current_frame_id)
    /\ [][/\ SlotTaken =>
               /\ udp'.current_frame_id = dev.frame_id_counter
               /\ dev'.frame_id_counter = U32Inc(dev.frame_id_counter)
          /\ ~SlotTaken =>
               dev'.frame_id_counter = dev.frame_id_counter
          /\ PacketBuilt =>
               Last(wire'.packets).header.frame_id = udp.current_frame_id
          /\ (udp.pc = "frag" /\ udp'.pc = "frag") =>
               udp'.current_frame_id = udp.current_frame_id]_vars

\* the second slot of a run was sent as two fragments carrying the last id
\* before the wrap, after a first slot that carried the id before it
C11_Witness ==
    /\ wire.done
    /\ Len(wire.packets) = 2
    /\ wire.packets[1].header.frame_id = U32Max
    /\ wire.packets[2].header.frame_id = U32Max
    /\ dev.frame_id_counter = U32Zero
    /\ dev.stats.udp_packets_sent = 4

\* the packets handed to kernel_sendmsg and accepted by it
Transmitted == {i \in 1..Len(wire.packets) : wire.packets[i].sent}

\* every transmitted packet has a header of H bytes followed by
\* payload_length bytes, 1 <= payload_length <= 1360, total_length =
\* H + payload_length, datagram length = total_length <= H + 1360
PacketLengths(H) ==
    \A i \in Transmitted :
        LET pk == wire.packets[i]
        IN  /\ pk.header.payload_length >= 1
            /\ pk.header.payload_length <= 1360
            /\ 4 * Len(pk.payload) = pk.header.payload_length
            /\ pk.header.total_length = H + pk.header.payload_length
            /\ pk.iov_len = pk.header.total_length
            /\ pk.iov_len = 4 * Len(HeaderFields) + 4 * Len(pk.payload)
            /\ pk.iov_len <= H + 1360

\* C12 as claimed: every transmitted packet is a 44-byte header followed by
\* payload_length bytes with 1 <= payload_length <= 1360, total_length is
\* 44 + payload_length, the datagram length is total_length, and no datagram
\* exceeds 1404 bytes.
C12_AsClaimed == PacketLengths(44)

\* the step is a completion callback, with no DMA error and its copy
\* allocated, that finds the raw-transfer queue full
CallbackFindsQueueFull ==
    /\ cb.pc = "idle"
    /\ dev'.stats.transfers_completed = dev.stats.transfers_completed + 1
    /\ faults' = faults
    /\ dev.dest_set
    /\ Len(dev.raw_frame_fifo) = FifoSlots

\* the step is the callback's call of antsdr_submit_dma_transfer
CallbackSubmits ==
    /\ cb.pc = "rearm"
    /\ cb'.pc # "rearm"
    /\ \/ hw'.inflight = hw.inflight + 1
       \/ faults' = faults + 1 /\ dev'.stats.errors = dev.stats.errors + 1

\* C13: a completion callback that finds the raw-transfer queue full drops the
\* new transfer: the queue and the worker's scheduling are unchanged and the
\* error counter grows by exactly 1; the callback then returns when streaming
\* is false and otherwise goes on to its re-arm, whose next step is the
\* submission of the next transfer.
C13_QueueFull ==
    /\ [][CallbackFindsQueueFull =>
             /\ dev'.raw_frame_fifo = dev.raw_frame_fifo
             /\ dev'.frame_work = dev.frame_work
             /\ dev'.frame_work_pending = dev.frame_work_pending
             /\ dev'.stats.errors = dev.stats.errors + 1
             /\ cb'.pc = IF dev.streaming THEN "rearm" ELSE "idle"]_vars
    /\ [][(cb.pc = "rearm" /\ cb'.pc # "rearm") => CallbackSubmits]_vars

\* a third transfer was dropped on a queue of two while streaming, and the
\* next transfer was submitted
C13_Witness ==
    /\ Len(dev.raw_frame_fifo) = FifoSlots
    /\ dev.stats.transfers_completed = FifoSlots + 1
    /\ dev.stats.errors = 1
    /\ faults = 0
    /\ dev.streaming
    /\ cb.pc = "idle"
    /\ hw.inflight = 1

\* antsdr_udp_work is queued or running
PacketizerActive == dev.udp_work \/ udp.pc # "idle"

\* C14 as claimed: whenever the payload ring is non-empty the packetizer is
\* scheduled or running, so that every payload put is consumed even if no
\* further put follows.
C14_AsClaimed == dev.ring_count > 0 => PacketizerActive

\* the step is a submission accepted by the DMA engine, made by the callback
\* (its re-arm, or the restart of its reset-and-restart)
CallbackSubmitsTransfer ==
    /\ cb.pc \in {"rearm", "restart"}
    /\ cb'.pc = "idle"
    /\ faults' = faults

\* C15 as claimed: once the streaming flag is cleared no further hardware
\* transfer is submitted by a completion callback, wherever the callback or
\* its reset-and-restart stands when the flag is cleared.
C15_AsClaimed == [][~(~dev.streaming /\ CallbackSubmitsTransfer)]_vars

\* the raw-transfer queue and the accumulation buffer of device d are empty
QueueAndBufferEmpty(d) ==
    /\ d.raw_frame_fifo = <<>>
    /\ d.frame_buffer_used = 0
    /\ d.frames_accumulated = 0

\* a stop was the last control call and it has returned
StoppedIdle ==
    /\ ctl.pc = "none"
    /\ ctl.cmd = "STOP_STREAMING"
    /\ ~dev.streaming

\* C16 as claimed: when a stop made from Streaming returns, the raw-transfer
\* queue and the accumulation buffer are empty (frame_buffer_used = 0,
\* frames_accumulated = 0), and they stay empty until the next control call.
C16_AsClaimed ==
    /\ [][StopReturns => QueueAndBufferEmpty(dev')]_vars
    /\ [][(StoppedIdle /\ QueueAndBufferEmpty(dev) /\ ctl' = ctl) =>
             QueueAndBufferEmpty(dev')]_vars

\* C17 as claimed: the pulse mode changes only while the streaming flag is
\* false and no transfer is in flight.
C17_AsClaimed ==
    [][dev'.pulse_mode # dev.pulse_mode =>
          (~dev.streaming /\ hw.inflight = 0)]_vars

\* the step is a fragment handed to kernel_sendmsg and refused
SendFails == udp.pc = "frag" /\ udp'.pc = "end"

\* the step is the end-of-run check of the packetizer
EndOfRun == udp.pc = "end" /\ udp'.pc = "idle"

\* C18: a fragment whose transmission fails adds exactly 1 to the error
\* counter and ends the invocation: the packet is not counted as sent, the
\* slot, already released, is not taken again, and no further fragment is
\* built for a slot once one of its fragments has failed (each index of a slot
\* is built once, in order); the end-of-run check then queues the packetizer
\* again when the ring still holds payloads.
C18_SendFailure ==
    /\ [](\A i \in 1..Len(wire.packets) :
            /\ wire.packets[i].header.fragment_index = i - 1
            /\ i < Len(wire.packets) => wire.packets[i].sent)
    /\ [][SendFails =>
             /\ dev'.stats.errors = dev.stats.errors + 1
             /\ dev'.stats.udp_packets_sent = dev.stats.udp_packets_sent
             /\ udp'.packets_sent = udp.packets_sent
             /\ ~Last(wire'.packets).sent
             /\ RingUnchanged]_vars
    /\ [][EndOfRun =>
             /\ dev.ring_count > 0 => dev'.udp_work /\ dev'.udp_work_pending
             /\ RingUnchanged]_vars

\* the first fragment of the first slot failed, and the slot that was still
\* in the ring was sent whole by a later invocation
C18_Witness ==
    /\ dev.frame_id_counter = U32FromNat(2)
    /\ wire.done
    /\ Len(wire.packets) = 2
    /\ dev.stats.udp_packets_sent = 2
    /\ dev.stats.errors = 1
    /\ faults = 1
    /\ dev.stats.valid_frames = 2

\* the payload bytes of the transfer a put took its payload from, as they
\* were when the transfer was parsed
ParsedBytes(e) == Slice(Build(e.src.obj), e.src.off, e.src.len \div 4)

\* C19 as claimed: the payload is copied into the ring slot before the
\* transfer is released, so the bytes every put copies are the payload bytes
\* of the transfer as parsed.
C19_AsClaimed ==
    \A s \in 0..(RingSlots - 1) :
        put_log[s].src.set => PutBytes(put_log[s]) = ParsedBytes(put_log[s])

\* the step queues one transfer copy
CopyQueued ==
    /\ Len(dev'.raw_frame_fifo) = Len(dev.raw_frame_fifo) + 1
    /\ SubSeq(dev'.raw_frame_fifo, 1, Len(dev.raw_frame_fifo))
          = dev.raw_frame_fifo

\* the step is the worker taking the oldest copy, which it parses and frees
CopyTakenByWorker ==
    /\ WorkerIterates
    /\ dev.raw_frame_fifo # <<>>
    /\ dev'.raw_frame_fifo = Tail(dev.raw_frame_fifo)

\* C20 as claimed: every transfer copy queued by the callback leaves the
\* raw-transfer queue through the worker, which parses it and releases it
\* once; no step removes a queued copy without releasing it.
C20_AsClaimed ==
    [][dev'.raw_frame_fifo # dev.raw_frame_fifo =>
          (CopyQueued \/ CopyTakenByWorker)]_vars

\* the thread is inside antsdr_dma_stop_streaming, past the flag
InStop == ctl.pc \in {"stop_wait", "stop_flush", "stop_clear"}

\* C21: a stop always returns, with the streaming flag false: its wait ends
\* by a completion or by the timeout, whether or not a callback signals, and
\* the flush of the frame workqueue ends.
C21_StopTerminates ==
    /\ InStop ~> ~InStop
    /\ [][StopReturns => ~dev'.streaming]_vars
    /\ [](ctl.pc = "stop_wait" => ENABLED StopWait)

\* a stop made from Streaming returned although no transfer ever completed
\* and no completion was signalled
C21_Witness ==
    /\ ctl.pc = "none"
    /\ ctl.cmd = "STOP_STREAMING"
    /\ ctl.mark = 0
    /\ calls = 0
    /\ dev.dma_complete = 0
    /\ ~dev.streaming
    /\ dev.gpio_enable = 0

(***************************************************************************)
(* C22: a transfer that completes with an error status adds 1 to the       *)
(* error counter and calls the reset-and-restart; when streaming is        *)
(* already stopped as the reset looks at the flag, the reset returns       *)
(* without clearing the ring, without re-enabling the hardware and without *)
(* submitting a transfer, and a restart is never begun from anywhere else. *)
(***************************************************************************)
CompletesWithError ==
    /\ cb.pc = "idle"
    /\ calls' = calls + 1
    /\ dev'.stats.transfers_completed = dev.stats.transfers_completed

C22_ErrorStatus ==
    /\ [][CompletesWithError =>
            /\ dev'.stats.errors = dev.stats.errors + 1
            /\ cb'.pc = "reset"]_vars
    /\ [][(ResetCheck /\ ~dev.streaming) =>
            /\ cb'.pc = "idle"
            /\ dev' = dev
            /\ hw' = hw]_vars
    /\ [][(cb'.pc = "restart" /\ cb.pc # "restart") =>
            (cb.pc = "reset" /\ dev.streaming)]_vars

C22_Witness ==
    /\ cb.pc = "reset"
    /\ ~dev.streaming
    /\ dev.stats.errors = 1
    /\ dev.stats.transfers_completed = 0
    /\ hw.inflight = 0

(***************************************************************************)
(* C23 as claimed: the worker parses every transfer against the frame size *)
(* of the mode that was active when the transfer was captured, whatever    *)
(* set_mode, stop and start did in between.                                *)
(***************************************************************************)
C23_AsClaimed ==
    [][CopyTakenByWorker =>
          Head(dev.raw_frame_fifo).data.len = Expected(dev.pulse_mode)]_vars

\* word offsets in the accumulation buffer at which a whole frame of the
\* current mode starts
BufferedFrames ==
    LET words == dev.frame_detection_buffer
        E == Expected(dev.pulse_mode)
    IN  {h \in 0..(Len(words) - E) :
            IsHeader(W(words, h)) /\ W(words, h + E - 1) = FPGA_FOOTER_MARKER}

ReprocessingPass == obs'.op = "buffer_process" /\ dev.frame_buffer_used >= 8

C26_AsClaimed ==
    [][(obs'.op = "frame_work" /\ obs'.ret = 0
          /\ dev.first_frame_received
          /\ dev.last_frame_counter = U32Max) =>
         dev'.missing_frame_count = dev.missing_frame_count]_vars

\* the transfer holds a start marker and no end marker
HeaderOnly(in, E) == in.hpos >= 0 /\ in.fpos = -1 /\ ~in.inner

\* appending size bytes reaches a threshold of the reprocessing pass
ReachesThreshold(size) ==
    \/ dev.frames_accumulated + 1 >= 3
    \/ dev.frame_buffer_used + size >= FRAME_DETECTION_BUFFER_SIZE \div 2

(***************************************************************************)
(* C27: a transfer with a start marker and no end marker is appended       *)
(* unchanged to the accumulation buffer, not discarded: frame_buffer_used  *)
(* grows by the transfer length and frames_accumulated by 1 (the append    *)
(* that reaches the threshold of 3 transfers is followed at once by the    *)
(* reprocessing pass, which leaves the buffer empty).  The transfer emits  *)
(* no payload of its own and leaves the gap tracking unchanged.            *)
(***************************************************************************)
C27_HeaderOnly ==
    [][WorkerStepOn(HeaderOnly) =>
         LET size == 4 * obs'.in.len
         IN  /\ obs'.ret = -1
             /\ RingUnchanged
             /\ GapUnchanged
             /\ dev'.stats.valid_frames = dev.stats.valid_frames
             /\ dev'.stats.extracted_frames = dev.stats.extracted_frames
             /\ ~ReachesThreshold(size) =>
                   /\ dev'.frame_detection_buffer =
                         dev.frame_detection_buffer \o Build(obs'.in)
                   /\ dev'.frame_buffer_used = dev.frame_buffer_used + size
                   /\ dev'.frames_accumulated = dev.frames_accumulated + 1
             /\ ReachesThreshold(size) =>
                   /\ dev'.frame_buffer_used = 0
                   /\ dev'.frames_accumulated = 0]_vars

C27_Witness ==
    /\ obs.op = "frame_work"
    /\ HeaderOnly(obs.in, FrameWords(dev.pulse_mode))
    /\ dev.frames_accumulated = 2
    /\ dev.frame_buffer_used = 2 * 4 * FrameWords(dev.pulse_mode)
    /\ dev.frame_detection_buffer = Build(obs.in) \o Build(obs.in)

(***************************************************************************)
(* C28: after every reprocessing pass the accumulation buffer is empty     *)
(* (frame_buffer_used = 0, frames_accumulated = 0), whether or not a frame *)
(* was recovered and whatever the buffer held; no tail is kept.            *)
(***************************************************************************)
C28_PassClears ==
    [][obs'.op = "buffer_process" =>
         /\ dev'.frame_buffer_used = 0
         /\ dev'.frames_accumulated = 0
         /\ dev'.frame_detection_buffer = <<>>]_vars

C28_Witness ==
    /\ obs.op = "buffer_process"
    /\ obs.frames_found = 1
    /\ dev.stats.valid_frames = 1
    /\ calls = 3
    /\ dev.frame_buffer_used = 0
    /\ dev.frames_accumulated = 0

\* the outcome counters of the worker: valid, extracted, invalid, errors
Outcome(d) ==
    <<d.stats.valid_frames, d.stats.extracted_frames,
      d.stats.invalid_frames, d.stats.errors>>

OutcomeStep(dv, dx, di, de) ==
    Outcome(dev') = <<dev.stats.valid_frames + dv,
                      dev.stats.extracted_frames + dx,
                      dev.stats.invalid_frames + di,
                      dev.stats.errors + de>>

(***************************************************************************)
(* C29: every transfer the worker takes increments exactly one outcome     *)
(* counter: valid_frames together with extracted_frames for a valid frame  *)
(* stored in the ring, errors for a valid frame the full ring refuses,     *)
(* invalid_frames for every other transfer; after any sequence of          *)
(* transfers each has been counted once.                                   *)
(***************************************************************************)
C29_OneOutcome ==
    /\ [](/\ dev.stats.valid_frames + dev.stats.invalid_frames
                + dev.stats.errors = calls
           /\ dev.stats.extracted_frames = dev.stats.valid_frames)
    /\ [][obs'.op = "frame_work" =>
            IF Good(obs'.in, FrameWords(dev.pulse_mode))
            THEN IF dev.ring_count < RingSlots
                 THEN OutcomeStep(1, 1, 0, 0)
                 ELSE OutcomeStep(0, 0, 0, 1)
            ELSE OutcomeStep(0, 0, 1, 0)]_vars

C29_Witness ==
    /\ obs.op = "frame_work"
    /\ obs.put_ret = -ENOSPC
    /\ calls = 3
    /\ Outcome(dev) = <<2, 2, 0, 1>>

\* antsdr_frame_work returns
FrameWorkReturns == worker.pc = "check" /\ worker'.pc = "idle"

(***************************************************************************)
(* C30: one invocation of the worker parses at most 50 transfers; when it  *)
(* finishes with the raw-transfer queue still non-empty it queues itself   *)
(* again, and otherwise it clears frame_work_pending.                      *)
(***************************************************************************)
C30_Batch ==
    /\ [](worker.processed_frames <= FrameWorkBatch)
    /\ [][FrameWorkReturns =>
            IF dev.raw_frame_fifo # <<>>
            THEN /\ dev'.frame_work
                 /\ dev'.frame_work_pending = dev.frame_work_pending
            ELSE /\ ~dev'.frame_work_pending
                 /\ dev'.frame_work = dev.frame_work]_vars

C30_Witness ==
    /\ worker.pc = "idle"
    /\ worker.processed_frames = FrameWorkBatch
    /\ Len(dev.raw_frame_fifo) = MaxQueued - FrameWorkBatch
    /\ dev.frame_work
    /\ dev.frame_work_pending

\* antsdr_frame_work is queued on frame_workqueue, or is running and has
\* not yet made its end-of-batch check
WorkPending == dev.frame_work \/ worker.pc \in {"loop", "check"}

\* the callback has queued a transfer and not yet decided on queue_work,
\* and is not about to skip it
CallbackAboutToQueueWork ==
    \/ cb.pc = "queued"
    \/ cb.pc = "decide" /\ ~cb.saw

(***************************************************************************)
(* C31: every transfer queued by the callback is eventually taken by the   *)
(* worker or removed by stop: whenever the raw-transfer queue is not empty *)
(* the frame work is queued or running (or the callback that has just      *)
(* queued is about to queue it), and the queue always becomes empty again, *)
(* under every interleaving of the callback's enqueue and flag check, the  *)
(* worker's end-of-batch check and the queue clear of stop.                *)
(***************************************************************************)
C31_NoLostWakeup ==
    /\ [](dev.raw_frame_fifo # <<>> =>
             (WorkPending \/ CallbackAboutToQueueWork))
    /\ (dev.raw_frame_fifo # <<>>) ~> (dev.raw_frame_fifo = <<>>)

\* the callback has read the flag as set, with a transfer queued, while the
\* worker is at its end-of-batch check
C31_Witness ==
    /\ cb.pc = "decide"
    /\ cb.saw
    /\ dev.raw_frame_fifo # <<>>
    /\ worker.pc = "check"

(***************************************************************************)
(* C32: one invocation of the packetizer transmits at most 200 packets,    *)
(* whatever the ring holds and in either pulse mode.                       *)
(***************************************************************************)
C32_PacketCap == udp.packets_sent <= UdpWorkBatch

\* the invocation ends at the cap with payloads still in the ring
C32_Witness ==
    /\ udp.pc = "end"
    /\ udp.packets_sent = UdpWorkBatch
    /\ dev.ring_count > 0

(***************************************************************************)
(* C33: get returns the oldest slot not yet released and removes nothing   *)
(* (a repeated get returns the same slot); release removes exactly that    *)
(* slot; on an empty ring get reports no data and release changes nothing; *)
(* payloads are therefore taken in the order they were put.                *)
(***************************************************************************)
C33_GetRelease ==
    /\ [][obs'.op = "ring_get" =>
            /\ dev' = dev
            /\ IF dev.ring_count = 0
               THEN obs'.ret = -ENODATA
               ELSE /\ obs'.ret = 0
                    /\ obs'.data = dev.ring_tail
                    /\ dev.ring_buffers[obs'.data][1]
                          = fed[Len(fed) - dev.ring_count + 1]
            /\ (obs.op = "ring_get") => (obs'.ret = obs.ret
                                         /\ obs'.data = obs.data)]_vars
    /\ [][obs'.op = "ring_return" =>
            IF dev.ring_count = 0
            THEN dev' = dev
            ELSE dev' = [dev EXCEPT
                           !.ring_tail = (@ + 1) % RingSlots,
                           !.ring_count = @ - 1]]_vars

\* two payloads put, the first taken and released, the second taken
C33_Witness ==
    /\ obs.op = "ring_get"
    /\ obs.ret = 0
    /\ obs.data = 1
    /\ Len(fed) = 2
    /\ dev.ring_count = 1
    /\ dev.ring_buffers[1][1] = fed[2]

\* antsdr_dma_start_streaming submits the first transfer of a session
FirstSubmit ==
    /\ ctl.pc = "start_submit"
    /\ ctl'.pc = "none"
    /\ dev'.streaming

GapTrackingFresh(d) ==
    /\ ~d.first_frame_received
    /\ d.missing_frame_count = U32Zero
    /\ d.last_frame_counter = U32Zero

(***************************************************************************)
(* C34 as claimed: when a start from idle submits its first transfer the   *)
(* gap tracking is reset (first_frame_received false, missing_frame_count  *)
(* 0, last_frame_counter 0) and the current buffer index is 0, whatever    *)
(* the session before left behind, so that the first valid frame of the    *)
(* session only seeds the tracking.                                        *)
(***************************************************************************)
C34_AsClaimed ==
    [][FirstSubmit =>
         /\ GapTrackingFresh(dev)
         /\ GapTrackingFresh(dev')
         /\ dev'.current_buffer = 0]_vars

\* context c spins on a lock another context (or c itself) holds
Spins(c) == NextOp(c).op = "acquire" /\ obs.owner[NextOp(c).on] # "free"

\* the context that holds the lock c spins on
Blocker(c) == obs.owner[NextOp(c).on]

\* following, from c, the holders of the locks spun on, a context that can
\* run is met within n steps
RECURSIVE ReachesRunner(_, _)
ReachesRunner(c, n) ==
    \/ ~Spins(c)
    \/ n > 0 /\ ReachesRunner(Blocker(c), n - 1)

(***************************************************************************)
(* C35: no interleaving of the callback, the worker, the packetizer,       *)
(* read() and the control operations deadlocks: no set of contexts spin on *)
(* locks held by one another (the four locks are taken in a consistent     *)
(* order), and no lock is held while a context waits for another context   *)
(* (completion wait, work-queue flush, transmission) or may sleep.         *)
(***************************************************************************)
C35_NoDeadlock ==
    \A c \in Contexts :
        /\ ReachesRunner(c, Cardinality(Contexts))
        /\ NextOp(c).op = "wait" => Holds(c) = {}

\* the worker holds frame_buffer_lock and spins on ring_lock, which read()
\* holds together with the statistics lock; the thread in stop is waiting
C35_Witness ==
    /\ obs.owner["frame_buffer_lock"] = "frame_work"
    /\ Spins("frame_work")
    /\ Blocker("frame_work") = "read"
    /\ Holds("read") = {"lock", "ring_lock"}
    /\ NextOp("ioctl") = Wait("flush_workqueue")

(***************************************************************************)
(* C36 as claimed: in every reachable state 0 <= ring_count <= ring_size   *)
(* and ring_head = (ring_tail + ring_count) mod ring_size, also when the   *)
(* reset-and-restart clears the ring while a put by another context is in  *)
(* progress.                                                               *)
(***************************************************************************)
C36_AsClaimed ==
    /\ dev.ring_count >= 0
    /\ dev.ring_count <= RingSlots
    /\ dev.ring_head = (dev.ring_tail + dev.ring_count) % RingSlots

(***************************************************************************)
(* C37: whenever antsdr_parse_fpga_frame returns success to the worker,    *)
(* the payload start and length the worker holds were written by that call *)
(* and lie inside the transfer passed to it; a put that follows reads      *)
(* through that pointer, never through one left by an earlier transfer; a  *)
(* success reported by a pass over the accumulation buffer is included.    *)
(***************************************************************************)
C37_PayloadOfThisCall ==
    (obs.op = "frame_work" /\ obs.ret = 0) =>
        /\ obs.out.set
        /\ obs.out.obj = obs.in
        /\ obs.out.off >= 0
        /\ obs.out.len >= 0
        /\ obs.out.off + obs.out.len \div 4 <= obs.in.len
        /\ worker.out = obs.out
        /\ obs.put_ret = 0 =>
              put_log[(dev.ring_head + RingSlots - 1) % RingSlots].src.obj
                  = obs.in

\* a second success, on a transfer other than the one of the first
C37_Witness ==
    /\ obs.op = "frame_work"
    /\ obs.ret = 0
    /\ obs.put_ret = 0
    /\ Len(fed) >= 2
    /\ fed[Len(fed)] # fed[Len(fed) - 1]

NoEndMarker(words) ==
    \A i \in 1..Len(words) : words[i] # FPGA_FOOTER_MARKER

\* the accumulation buffer grows: antsdr_frame_buffer_add stored a transfer
ExtractorAppends ==
    Len(dev'.frame_detection_buffer) > Len(dev.frame_detection_buffer)

\* the append by the extractor reaches the threshold and the pass follows
ExtractorPass ==
    /\ WorkerStepOn(HeaderOnly)
    /\ ReachesThreshold(4 * obs'.in.len)

(***************************************************************************)
(* C38: every transfer the extractor appends to the accumulation buffer    *)
(* holds a start marker and no end-marker word, so the buffer never holds  *)
(* an end marker, and a pass triggered by the extractor emits no frame: it *)
(* finds 0 frames (the extractor returns -1), stores nothing in the ring   *)
(* and leaves valid_frames and extracted_frames unchanged.                 *)
(***************************************************************************)
C38_NoEndMarkerBuffered ==
    /\ [](NoEndMarker(dev.frame_detection_buffer))
    /\ [][ExtractorAppends =>
            /\ HeaderPos(Build(obs'.in)) # -1
            /\ NoEndMarker(Build(obs'.in))]_vars
    /\ [][ExtractorPass =>
            /\ obs'.ret = -1
            /\ RingUnchanged
            /\ dev'.stats.valid_frames = dev.stats.valid_frames
            /\ dev'.stats.extracted_frames = dev.stats.extracted_frames]_vars

\* the third transfer with a start marker only has been parsed: the pass ran
C38_Witness ==
    /\ obs.op = "frame_work"
    /\ HeaderOnly(obs.in, FrameWords(dev.pulse_mode))
    /\ calls = 3
    /\ obs.ret = -1
    /\ dev.frames_accumulated = 0
    /\ dev.frame_buffer_used = 0
    /\ dev.stats.valid_frames = 0

(***************************************************************************)
(* C39 as claimed: with the packetizer and read() both consuming, every    *)
(* payload put is consumed once: no payload is delivered twice, and every  *)
(* slot released holds the payload that the consumer releasing it read.    *)
(***************************************************************************)
C39_AsClaimed ==
    /\ \A i, j \in 1..Len(Held.delivered) :
          i # j => Held.delivered[i].payload # Held.delivered[j].payload
    /\ \A i \in 1..Len(Held.released) :
          Held.released[i].payload = Held.released[i].read

\* antsdr_dma_start_streaming returns the error of the first submission
StartSubmitFails ==
    /\ ctl.pc = "start_submit"
    /\ ctl'.pc = "none"
    /\ faults' = faults + 1

\* ioctl(ANTSDR_IOC_START_STREAMING) is issued
StartIssued ==
    /\ ctl.pc = "none"
    /\ ctl'.n = ctl.n + 1
    /\ ctl'.cmd = "START_STREAMING"

(***************************************************************************)
(* C40: when the submission of the first transfer fails, start() returns   *)
(* with streaming = false, data generation disabled and no transfer        *)
(* submitted by it; a start() issued while streaming is false is accepted  *)
(* (it goes on to the submission), so the one that follows a failed start  *)
(* is not rejected as busy.                                                *)
(***************************************************************************)
C40_FailedStartIdle ==
    /\ [][StartSubmitFails =>
            /\ ~dev'.streaming
            /\ dev'.gpio_enable = 0
            /\ hw' = hw]_vars
    /\ [][(StartIssued /\ ~dev.streaming) =>
            ctl'.pc = "start_submit"]_vars

\* the first start failed at its submission; the second is accepted
C40_Witness ==
    /\ ctl.n = 2
    /\ ctl.cmd = "START_STREAMING"
    /\ ctl.pc = "start_submit"
    /\ ctl.mark = -1
    /\ faults = 1
    /\ ~dev.streaming
    /\ dev.gpio_enable = 0
    /\ hw.inflight = 0

=============================================================================
